---- MODULE Spec2Model ----
(***************************************************************************)
(* pickdiff: diff acquisition (generateDiffs and the POST /api/diff        *)
(* handler), the unified-diff parser and header stripper, the context-     *)
(* width validation, and the renderers (stdout, Markdown, browser page).   *)
(* Text is a sequence of one-character strings, so that split, startsWith  *)
(* and the hunk-header pattern are computed character by character.        *)
(***************************************************************************)
EXTENDS Integers, Sequences, FiniteSets, TLC

VARIABLES
    diff,               \* parser input: raw diff text (parseDiffWithLineNumbers' argument)
    parsed,             \* parser call: its state and the DiffLine sequence it returned
    stripped,           \* stripDiffHeaders call on the same text: its state and its result
    data,               \* the renderers' input: a DiffResult with the export metadata
    rendered,           \* renderer call: which renderer ran and the text it returned
    diffSummary,        \* the page's #diff-summary element: its child elements in order
    entry,              \* which code path runs the per-file loop: "generateDiffs" or "post"
    startCommit,        \* the request's startCommit: a string, or "undefined" when missing
    endCommit,          \* the request's endCommit: a string, or "undefined" when missing
    filesKind,          \* what the request's files is: "array", "string" or "undefined"
    files,              \* the requested paths, in request order
    contextLines,       \* the requested context width, any JavaScript value
    validContextLines,  \* the width after validation
    idx,                \* 1-based position of the for-of loop over files
    pc,                 \* position of the computation inside the loop body
    diffKeys,           \* own string keys of the diffs object in creation order
    diffs,              \* property values of the diffs object: path -> DiffLine sequence
    excludedFiles,      \* the excludedFiles array
    calls,              \* every collaborator call issued so far, in issue order
    repo,               \* what the repository answers, fixed once asked (path -> answers)
    outcome,            \* how the computation ended: value returned, failure thrown, response
    lookup,             \* getLanguageFromFilename call: its argument, state and result
    proc,               \* the server process: alive or exited with a code, signals received
    server,             \* the HTTP server: listening, open connections, close listeners
    timers,             \* pending setTimeout timers: the time each still has to run
    elapsed,            \* time since the first signal was received
    fileTree,           \* #file-tree: its files, checkboxes, list items and folders
    selectAllCheckbox,  \* #select-all: checked and indeterminate
    selectedFilesList,  \* #selected-files-list: the paths it shows, in order
    search,             \* #file-search value, isSearchActive and savedCollapsedState
    beforeSearch,       \* history: the folders' collapsed states when the search began
    argv,               \* the command line of main: the --context value and --output
    handlers,           \* the submit handler's invocations so far, each with its position
    currentDiffData,    \* the data kept for the Markdown export, or null
    exportContainer,    \* #export-container: its style.display
    localStorage        \* the four items the submit handler saves

vars == <<diff, parsed, stripped, data, rendered, diffSummary, entry, startCommit, endCommit, filesKind, files, contextLines, validContextLines, idx, pc,
          diffKeys, diffs, excludedFiles, calls, repo, outcome, lookup,
          proc, server, timers, elapsed,
          fileTree, selectAllCheckbox, selectedFilesList, search, beforeSearch, argv,
          handlers, currentDiffData, exportContainer, localStorage>>

\* the state of the browser page and of the server process outside a request
lookupVars == <<lookup>>

shutdownVars == <<proc, server, timers, elapsed>>

treeVars == <<fileTree, selectAllCheckbox, selectedFilesList, search, beforeSearch>>

mainVars == <<argv>>

submitVars == <<handlers, currentDiffData, exportContainer, localStorage>>

pageVars == <<lookupVars, shutdownVars, treeVars, mainVars, submitVars>>

parseVars == <<diff, parsed>>
stripVars == <<stripped>>
renderVars == <<data, rendered, diffSummary>>
request == <<entry, startCommit, endCommit, filesKind, files>>
genVars == <<entry, startCommit, endCommit, filesKind, files, contextLines, validContextLines, idx, pc,
             diffKeys, diffs, excludedFiles, calls, repo, outcome>>

-----------------------------------------------------------------------------
(* Characters and text                                                     *)

LF == "\n"

Digits == <<"0", "1", "2", "3", "4", "5", "6", "7", "8", "9">>

IsDigit(c) == \E d \in 1..Len(Digits) : Digits[d] = c

DigitVal(c) == (CHOOSE d \in 1..Len(Digits) : Digits[d] = c) - 1

\* String.prototype.startsWith
StartsWith(s, prefix) ==
    /\ Len(s) >= Len(prefix)
    /\ SubSeq(s, 1, Len(prefix)) = prefix

\* s.split("\n"): the pieces between line feeds; "" splits into [""].
RECURSIVE SplitFrom(_, _, _)
SplitFrom(s, i, cur) ==
    IF i > Len(s) THEN <<cur>>
    ELSE IF s[i] = LF THEN <<cur>> \o SplitFrom(s, i + 1, <<>>)
    ELSE SplitFrom(s, i + 1, Append(cur, s[i]))

Split(s) == SplitFrom(s, 1, <<>>)

\* lines.join("\n")
RECURSIVE Join(_)
Join(ls) ==
    IF Len(ls) = 0 THEN <<>>
    ELSE IF Len(ls) = 1 THEN ls[1]
    ELSE ls[1] \o <<LF>> \o Join(Tail(ls))

\* Number.parseInt(digits, 10) for a non-empty run of decimal digits
RECURSIVE ParseIntAcc(_, _)
ParseIntAcc(ds, acc) ==
    IF Len(ds) = 0 THEN acc
    ELSE ParseIntAcc(Tail(ds), acc * 10 + DigitVal(ds[1]))

ParseInt(ds) == ParseIntAcc(ds, 0)

-----------------------------------------------------------------------------
(* The hunk-header pattern /@@ -(\d+)(?:,\d+)? \+(\d+)(?:,\d+)? @@/        *)
(* String.prototype.match searches the whole line for the leftmost match.  *)

\* index just past the run of digits that starts at i (i itself if none)
RECURSIVE DigitsEnd(_, _)
DigitsEnd(s, i) ==
    IF i <= Len(s) /\ IsDigit(s[i]) THEN DigitsEnd(s, i + 1) ELSE i

\* does the literal lit occur in s at position i
LitAt(s, i, lit) ==
    /\ i >= 1
    /\ i + Len(lit) - 1 <= Len(s)
    /\ SubSeq(s, i, i + Len(lit) - 1) = lit

\* index just past an optional ",\d+" group starting at i
OptCountEnd(s, i) ==
    IF LitAt(s, i, <<",">>) /\ DigitsEnd(s, i + 1) > i + 1
    THEN DigitsEnd(s, i + 1)
    ELSE i

\* the pattern tried at position p: [ok, old, new]
HunkMatchAt(s, p) ==
    LET a1 == p + 4
        a2 == DigitsEnd(s, a1)
        a3 == OptCountEnd(s, a2)
        b1 == a3 + 2
        b2 == DigitsEnd(s, b1)
        b3 == OptCountEnd(s, b2)
    IN  IF /\ LitAt(s, p, <<"@", "@", " ", "-">>)
           /\ a2 > a1
           /\ LitAt(s, a3, <<" ", "+">>)
           /\ b2 > b1
           /\ LitAt(s, b3, <<" ", "@", "@">>)
        THEN [ok |-> TRUE,
              old |-> ParseInt(SubSeq(s, a1, a2 - 1)),
              new |-> ParseInt(SubSeq(s, b1, b2 - 1))]
        ELSE [ok |-> FALSE, old |-> 0, new |-> 0]

\* line.match(pattern): the leftmost position where the pattern matches
HunkMatch(s) ==
    LET hits == {p \in 1..Len(s) : HunkMatchAt(s, p).ok}
    IN  IF hits = {} THEN [ok |-> FALSE, old |-> 0, new |-> 0]
        ELSE HunkMatchAt(s, CHOOSE p \in hits : \A q \in hits : p <= q)

IsHunkLine(line) == StartsWith(line, <<"@", "@", " ">>)

-----------------------------------------------------------------------------
(* parseDiffWithLineNumbers                                                *)

\* is the optional property present
HasOld(r) == "oldLineNumber" \in DOMAIN r

HasNew(r) == "newLineNumber" \in DOMAIN r

AdditionLine(line, new) == [content |-> line, newLineNumber |-> new]

\* the context branch's object literal pasted into the deletion branch
DeletionLineBothNumbers(line, old) ==
    [content |-> line, oldLineNumber |-> old, newLineNumber |-> old]

DeletionLine(line, old) == [content |-> line, oldLineNumber |-> old]

ContextLine(line, old, new) ==
    [content |-> line, oldLineNumber |-> old, newLineNumber |-> new]

\* the loop body with `oldLineNumber++` missing from the context branch
ParseStepContextKeepsOld(st, line) ==
    IF IsHunkLine(line) THEN
        LET m == HunkMatch(line)
        IN  IF m.ok
            THEN [st EXCEPT !.inContent = TRUE, !.old = m.old, !.new = m.new]
            ELSE [st EXCEPT !.inContent = TRUE]
    ELSE IF ~st.inContent THEN st
    ELSE IF Len(line) = 0 THEN st
    ELSE IF StartsWith(line, <<"+">>) THEN
        [st EXCEPT !.out = Append(@, AdditionLine(line, st.new)),
                   !.new = @ + 1]
    ELSE IF StartsWith(line, <<"-">>) THEN
        [st EXCEPT !.out = Append(@, DeletionLine(line, st.old)),
                   !.old = @ + 1]
    ELSE
        [st EXCEPT !.out = Append(@, ContextLine(line, st.old, st.new)),
                   !.new = @ + 1]

\* the loop body with a header that fails the pattern starting the counters over
ParseStepBadHeaderResets(st, line) ==
    IF IsHunkLine(line) THEN
        LET m == HunkMatch(line)
        IN  [st EXCEPT !.inContent = TRUE, !.old = m.old, !.new = m.new]
    ELSE IF ~st.inContent THEN st
    ELSE IF Len(line) = 0 THEN st
    ELSE IF StartsWith(line, <<"+">>) THEN
        [st EXCEPT !.out = Append(@, AdditionLine(line, st.new)),
                   !.new = @ + 1]
    ELSE IF StartsWith(line, <<"-">>) THEN
        [st EXCEPT !.out = Append(@, DeletionLine(line, st.old)),
                   !.old = @ + 1]
    ELSE
        [st EXCEPT !.out = Append(@, ContextLine(line, st.old, st.new)),
                   !.old = @ + 1,
                   !.new = @ + 1]

\* one iteration of the for-of loop: the loop state after `line`
ParseStep(st, line) ==
    IF IsHunkLine(line) THEN
        LET m == HunkMatch(line)
        IN  IF m.ok
            THEN [st EXCEPT !.inContent = TRUE, !.old = m.old, !.new = m.new]
            ELSE [st EXCEPT !.inContent = TRUE]
    ELSE IF ~st.inContent THEN st
    ELSE IF Len(line) = 0 THEN st
    ELSE IF StartsWith(line, <<"+">>) THEN
        [st EXCEPT !.out = Append(@, AdditionLine(line, st.new)),
                   !.new = @ + 1]
    ELSE IF StartsWith(line, <<"-">>) THEN
        [st EXCEPT !.out = Append(@, DeletionLine(line, st.old)),
                   !.old = @ + 1]
    ELSE
        [st EXCEPT !.out = Append(@, ContextLine(line, st.old, st.new)),
                   !.old = @ + 1,
                   !.new = @ + 1]

RECURSIVE ParseLoop(_, _, _)
ParseLoop(lines, i, st) ==
    IF i > Len(lines) THEN st
    ELSE ParseLoop(lines, i + 1, ParseStep(st, lines[i]))

parseDiffWithLineNumbers(d) ==
    ParseLoop(Split(d), 1,
              [old |-> 0, new |-> 0, inContent |-> FALSE, out |-> <<>>]).out

-----------------------------------------------------------------------------
(* stripDiffHeaders                                                        *)

\* the loop body with the inContent test missing: lines before the first hunk
\* header are kept
StripStepKeepsPreamble(st, line) ==
    IF IsHunkLine(line) THEN [st EXCEPT !.inContent = TRUE]
    ELSE [st EXCEPT !.contentLines = Append(@, line)]

\* the loop body sniffing header prefixes inside the content as well
StripStepSniffsPrefixes(st, line) ==
    IF IsHunkLine(line) THEN [st EXCEPT !.inContent = TRUE]
    ELSE IF ~st.inContent THEN st
    ELSE IF \/ StartsWith(line, <<"d", "i", "f", "f">>)
            \/ StartsWith(line, <<"i", "n", "d", "e", "x">>)
            \/ StartsWith(line, <<"-", "-", "-">>)
            \/ StartsWith(line, <<"+", "+", "+">>)
    THEN st
    ELSE [st EXCEPT !.contentLines = Append(@, line)]

\* one iteration of the for-of loop: the loop state after `line`
StripStep(st, line) ==
    IF IsHunkLine(line) THEN [st EXCEPT !.inContent = TRUE]
    ELSE IF ~st.inContent THEN st
    ELSE [st EXCEPT !.contentLines = Append(@, line)]

RECURSIVE StripLoop(_, _, _)
StripLoop(lines, i, st) ==
    IF i > Len(lines) THEN st
    ELSE StripLoop(lines, i + 1, StripStep(st, lines[i]))

stripDiffHeaders(d) ==
    Join(StripLoop(Split(d), 1, [inContent |-> FALSE, contentLines |-> <<>>]).contentLines)

-----------------------------------------------------------------------------
(* JavaScript values of the contextLines argument                          *)

\* a number with one decimal place: whole + frac/10 (frac = 0 for integers)
Num(whole, frac) == [t |-> "number", whole |-> whole, frac |-> frac]

Undefined == [t |-> "undefined"]

DefaultContextLines == 3

MaxContextLines == 999999

IsNumber(v) == v.t = "number"

\* Number.isInteger
IsInteger(v) == IsNumber(v) /\ v.frac = 0

\* v > 0
IsPositive(v) == v.whole > 0 \/ (v.whole = 0 /\ v.frac > 0)

\* v <= 999999
AtMostMax(v) ==
    v.whole < MaxContextLines \/ (v.whole = MaxContextLines /\ v.frac = 0)

validateContextLines(v) ==
    IF IsNumber(v) /\ IsInteger(v) /\ IsPositive(v) /\ AtMostMax(v)
    THEN v
    ELSE Num(DefaultContextLines, 0)

\* POST /api/diff: typeof contextLines === "number" && contextLines > 0 ? contextLines : 3
postValidContextLines(v) ==
    IF IsNumber(v) /\ IsPositive(v) THEN v ELSE Num(DefaultContextLines, 0)

\* a parameter or destructuring default: `contextLines = 3` replaces undefined only
DefaultParam(v) == IF v.t = "undefined" THEN Num(DefaultContextLines, 0) ELSE v

-----------------------------------------------------------------------------
(* The diffs object: Record<string, DiffLine[]>                            *)

\* 2^32 - 2, the largest array index, as decimal digits
MaxArrayIndex == <<"4", "2", "9", "4", "9", "6", "7", "2", "9", "4">>

\* a <= b for decimal numerals without leading zeros
RECURSIVE DigitsLeq(_, _)
DigitsLeq(a, b) ==
    IF Len(a) # Len(b) THEN Len(a) < Len(b)
    ELSE IF Len(a) = 0 THEN TRUE
    ELSE IF a[1] # b[1] THEN DigitVal(a[1]) < DigitVal(b[1])
    ELSE DigitsLeq(Tail(a), Tail(b))

\* a property key that is a canonical array index ("0", "7", "10"; not "01")
IsArrayIndex(k) ==
    /\ Len(k) >= 1
    /\ \A i \in 1..Len(k) : IsDigit(k[i])
    /\ Len(k) = 1 \/ k[1] # "0"
    /\ DigitsLeq(k, MaxArrayIndex)

\* the elements of seq that satisfy Keep, in seq order
RECURSIVE SelectIdx(_, _)
SelectIdx(seq, keep) ==
    IF Len(seq) = 0 THEN <<>>
    ELSE IF keep[seq[1]] THEN <<seq[1]>> \o SelectIdx(Tail(seq), keep)
    ELSE SelectIdx(Tail(seq), keep)

\* a set of array-index keys in ascending numeric order
RECURSIVE Ascending(_)
Ascending(S) ==
    IF S = {} THEN <<>>
    ELSE LET m == CHOOSE k \in S : \A o \in S : DigitsLeq(k, o)
         IN  <<m>> \o Ascending(S \ {m})

\* Object.keys / for-in / JSON.stringify order of an ordinary object:
\* array-index keys ascending, then the other string keys in creation order.
ObjectKeys(keys) ==
    LET all == {keys[i] : i \in 1..Len(keys)}
        isIdx == [k \in all |-> IsArrayIndex(k)]
        notIdx == [k \in all |-> ~IsArrayIndex(k)]
    IN  Ascending({k \in all : isIdx[k]}) \o SelectIdx(keys, notIdx)

\* diffs[file] = diffLines: a new key is created last, an existing key keeps its place
KeysAfterSet(keys, file) ==
    IF \E i \in 1..Len(keys) : keys[i] = file THEN keys ELSE Append(keys, file)

NO_CHANGES == <<"N", "O", "_", "C", "H", "A", "N", "G", "E", "S">>

\* the marker built with a line number, as the other two branches build their lines
NoChangesLinesNumbered == << [content |-> NO_CHANGES, newLineNumber |-> 1] >>

NoChangesLines == << [content |-> NO_CHANGES] >>

\* fileContent.split("\n").map((line, index) => ({content: `+${line}`, newLineNumber: index + 1}))
NewFileLines(fileContent) ==
    LET ls == Split(fileContent)
    IN  [i \in 1..Len(ls) |->
            [content |-> <<"+">> \o ls[i], newLineNumber |-> i]]

-----------------------------------------------------------------------------
(* Inputs                                                                  *)

MaxFiles == 2

Paths == { <<"b">>, <<"2">>, <<"1", "0">> }

\* request lists: every sequence of at most MaxFiles paths (repeats allowed)
FileLists == UNION {[1..n -> Paths] : n \in 0..MaxFiles}

\* lines of a diff text the bounded inputs are made of
Line ==
    [
      hunkHeader12 |->
          <<"@", "@", " ", "-", "1", ",", "2", " ", "+", "1", ",", "2", " ", "@", "@">>,
      old |->
          <<"-", "o", "l", "d", " ", "l", "i", "n", "e">>,
      new |->
          <<"+", "n", "e", "w", " ", "l", "i", "n", "e">>,
      fileHeaderDiff |->
          <<"d", "i", "f", "f">>,
      fileHeaderOld |->
          <<"-", "-", "-", " ", "a">>,
      fileHeaderNew |->
          <<"+", "+", "+", " ", "b">>,
      \* "@@ -5 +7 @@": the counts left out
      hunkHeader57 |->
          <<"@", "@", " ", "-", "5", " ", "+", "7", " ", "@", "@">>,
      \* "@@ bad": starts like a hunk header and fails the pattern
      hunkHeaderBad |->
          <<"@", "@", " ", "b", "a", "d">>,
      context |->
          <<" ", "c">>,
      \* "\ no newline": a content line with none of the three markers
      markerless |->
          <<"\\", " ", "n", "o">>,
      index |->
          <<"i", "n", "d", "e", "x">>
    ]

\* "@@ -1,2 +1,2 @@\n-old line\n+new line"
ScenarioDiff == Join(<<Line.hunkHeader12, Line.old, Line.new>>)

\* "@@ -1,2 +1,2 @@\nNO_CHANGES": a hunk whose one content line carries no marker
\* and reads like the marker of unchanged files
MarkerTextDiff == Join(<<Line.hunkHeader12, NO_CHANGES>>)

\* what git diff may resolve to; the empty text signals "no textual difference"
RawDiffs == { <<>>, ScenarioDiff, MarkerTextDiff }

\* what git show may resolve to: empty file, one and two lines, with and without
\* the final line terminator
FileContents ==
    { <<>>, <<"x">>, <<"x", LF>>, <<"x", LF, "y">>, <<"x", LF, "y", LF>> }

CtxValues ==
    { Undefined, [t |-> "string"], [t |-> "null"],
      Num(-5, 0), Num(0, 0), Num(1, 0), Num(10, 0), Num(1, 5),
      Num(MaxContextLines, 0), Num(MaxContextLines + 1, 0) }

\* a settled collaborator promise: resolved with a text, or rejected with an Error
\* that has a message or with a bare value that is no Error
Resolved(text) ==
    [state |-> "resolved", text |-> text, isError |-> FALSE, message |-> ""]

Rejected(isError, message) ==
    [state |-> "rejected", text |-> <<>>, isError |-> isError, message |-> message]

NotAsked == [state |-> "unknown", text |-> <<>>, isError |-> FALSE, message |-> ""]

Failures == { Rejected(TRUE, "git error"), Rejected(FALSE, "") }

DiffAnswers == {Resolved(t) : t \in RawDiffs} \cup Failures

ShowAnswers == {Resolved(t) : t \in FileContents} \cup Failures

\* answers of the existence probe `git cat-file -e rev:path`: it resolves when the
\* file exists and rejects when it is absent or when the probe itself fails
ProbeAnswers == {"exists", "absent", "error"}

Unknown == "?"

-----------------------------------------------------------------------------
(* State                                                                   *)

NoOutcome == [kind |-> "none"]

InitParseIdle ==
    /\ diff = <<>>
    /\ parsed = [state |-> "idle", lines |-> <<>>]

\* the check without Array.isArray
MissingParametersNoArrayTest ==
    \/ startCommit \in {"undefined", ""}
    \/ endCommit \in {"undefined", ""}
    \/ filesKind = "undefined"

\* !startCommit || !endCommit || !files || !Array.isArray(files)
MissingParameters ==
    \/ startCommit \in {"undefined", ""}
    \/ endCommit \in {"undefined", ""}
    \/ filesKind # "array"

\* a well-typed call of generateDiffs, or any JSON body posted to /api/diff
InitRequest ==
    \/ /\ entry \in {"generateDiffs", "post"}
       /\ startCommit = "abc123"
       /\ endCommit = "def456"
       /\ filesKind = "array"
       /\ files \in FileLists
       /\ contextLines \in CtxValues
    \/ /\ entry = "post"
       /\ startCommit \in {"undefined", "", "abc123"}
       /\ endCommit \in {"undefined", "", "def456"}
       /\ filesKind \in {"array", "string", "undefined"}
       /\ files = IF filesKind = "array" THEN << <<"b">> >> ELSE <<>>
       /\ contextLines = Undefined

NoData == [kind |-> "none"]

InitStripIdle == stripped = [state |-> "idle", text |-> <<>>]

InitLookupIdle ==
    lookup = [state |-> "idle", filename |-> <<>>, found |-> FALSE, name |-> <<>>]

\* no server process is under observation
InitShutdownIdle ==
    /\ proc = [alive |-> FALSE, exitCode |-> 0, received |-> <<>>]
    /\ server = [listening |-> FALSE, connections |-> 0, closeListeners |-> 0]
    /\ timers = <<>>
    /\ elapsed = 0

\* no page is under observation
InitTreeIdle ==
    /\ fileTree = [files |-> {}, checked |-> <<>>, folderCheckboxes |-> <<>>,
                   display |-> <<>>, collapsed |-> <<>>, nestedList |-> <<>>]
    /\ selectAllCheckbox = [checked |-> FALSE, indeterminate |-> FALSE]
    /\ selectedFilesList = <<>>
    /\ search = [value |-> <<>>, isSearchActive |-> FALSE, savedCollapsedState |-> <<>>]
    /\ beforeSearch = [collapsed |-> <<>>, toggled |-> FALSE]

\* main is not running
InitMainIdle == argv = [context |-> [given |-> FALSE, text |-> <<>>], output |-> "stdout"]

Null == [kind |-> "null"]

\* the page as it is loaded: nothing submitted, nothing to export, nothing saved
InitSubmitIdle ==
    /\ handlers = <<>>
    /\ currentDiffData = Null
    /\ exportContainer = [style |-> [display |-> "none"]]
    /\ localStorage = [startCommit |-> <<>>, endCommit |-> <<>>, selectedFiles |-> <<>>,
                       contextLines |-> <<>>]

InitPageIdle ==
    InitLookupIdle /\ InitShutdownIdle /\ InitTreeIdle /\ InitMainIdle /\ InitSubmitIdle

InitRenderIdle ==
    /\ data = NoData
    /\ rendered = [by |-> "idle", text |-> <<>>]
    /\ diffSummary = [innerHTML |-> <<>>, children |-> <<>>]

InitGen ==
    /\ InitPageIdle
    /\ InitParseIdle
    /\ InitStripIdle
    /\ InitRenderIdle
    /\ InitRequest
    /\ validContextLines = Undefined
    /\ idx = 1
    /\ pc = "start"
    /\ diffKeys = <<>>
    /\ diffs = <<>>
    /\ excludedFiles = <<>>
    /\ calls = <<>>
    /\ repo = [p \in Paths |->
                 [end |-> Unknown, diff |-> NotAsked, start |-> Unknown, show |-> NotAsked]]
    /\ outcome = NoOutcome

File == files[idx]

\* the repository gives the same answer to the same question
Asked(path, question) ==
    IF question \in {"end", "start"}
    THEN repo[path][question] # Unknown
    ELSE repo[path][question].state # "unknown"

Answers(path, question, possible) ==
    IF Asked(path, question) THEN {repo[path][question]} ELSE possible

Learn(path, question, answer) == [repo EXCEPT ![path][question] = answer]

\* the probe's rejection dropped: every file is taken to exist
ProbeAlwaysResolved(a) == TRUE

\* `await git.raw([...])` inside try: control passes the catch block only when
\* the probe resolved; any rejection enters `catch {}`
ProbeResolved(a) == a = "exists"

\* unshift for push: the excluded paths come out in reverse request order
ExcludeUnshift(file) == <<file>> \o excludedFiles

\* excludedFiles.push(file)
Exclude(file) == Append(excludedFiles, file)

\* the end of one loop iteration: on to the next file
NextFile ==
    /\ idx' = idx + 1
    /\ pc' = "endCheck"

\* diffs[file] = diffLines
StoreDiff(diffLines) ==
    /\ diffKeys' = KeysAfterSet(diffKeys, File)
    /\ diffs' = (File :> diffLines) @@ diffs

\* a per-file catch that gives up on the failing file and hands back what it has
AbortWithPartialResult(failure) ==
    /\ pc' = "done"
    /\ outcome' =
         IF entry = "generateDiffs"
         THEN [kind |-> "returned", diffs |-> diffs, keys |-> ObjectKeys(diffKeys),
               excludedFiles |-> Append(excludedFiles, File)]
         ELSE [kind |-> "response", status |-> 200, diffs |-> diffs,
               keys |-> ObjectKeys(diffKeys),
               excludedFiles |-> Append(excludedFiles, File)]

\* a catch that answers with the generic text whatever was thrown
AbortGenericMessage(failure) ==
    /\ pc' = "done"
    /\ outcome' =
         IF entry = "generateDiffs"
         THEN [kind |-> "thrown", failure |-> failure]
         ELSE [kind |-> "response", status |-> 500, error |-> "Failed to get diffs"]

\* a rejected await outside every try block of the loop: generateDiffs' promise
\* rejects with the same value; the POST handler's catch answers 500
Abort(failure) ==
    /\ pc' = "done"
    /\ outcome' =
         IF entry = "generateDiffs"
         THEN [kind |-> "thrown", failure |-> failure]
         ELSE [kind |-> "response", status |-> 500,
               error |-> IF failure.isError THEN failure.message
                         ELSE "Failed to get diffs"]

-----------------------------------------------------------------------------
(* Operations                                                              *)

\* generateDiffs(git, startCommit, endCommit, files, contextLines = 3): up to the loop
GenerateDiffsCall ==
    /\ pc = "start"
    /\ entry = "generateDiffs"
    /\ validContextLines' = validateContextLines(DefaultParam(contextLines))
    /\ pc' = "endCheck"
    /\ UNCHANGED <<pageVars, parseVars, stripVars, renderVars, request, contextLines, idx, diffKeys, diffs,
                   excludedFiles, calls, repo, outcome>>

\* POST /api/diff: the parameter check and the width validation, up to the loop
PostDiffRequest ==
    /\ pc = "start"
    /\ entry = "post"
    /\ IF MissingParameters
       THEN /\ pc' = "done"
            /\ outcome' = [kind |-> "response", status |-> 400,
                           error |-> "Missing required parameters."]
            /\ UNCHANGED validContextLines
       ELSE /\ validContextLines' = postValidContextLines(DefaultParam(contextLines))
            /\ pc' = "endCheck"
            /\ UNCHANGED outcome
    /\ UNCHANGED <<pageVars, parseVars, stripVars, renderVars, request, contextLines, idx, diffKeys, diffs,
                   excludedFiles, calls, repo>>

\* await git.raw(["cat-file", "-e", `${endCommit}:${file}`]) inside try/catch
CatFileEnd ==
    /\ pc = "endCheck"
    /\ idx <= Len(files)
    /\ \E a \in Answers(File, "end", ProbeAnswers) :
        /\ repo' = Learn(File, "end", a)
        /\ calls' = Append(calls, [op |-> "cat-file", rev |-> "end", file |-> File, at |-> idx])
        /\ IF ProbeResolved(a)
           THEN /\ pc' = "diff"
                /\ UNCHANGED <<idx, excludedFiles>>
           ELSE /\ excludedFiles' = Exclude(File)
                /\ NextFile
    /\ UNCHANGED <<pageVars, parseVars, stripVars, renderVars, request, contextLines, validContextLines,
                   diffKeys, diffs, outcome>>

\* await git.diff([`${startCommit}..${endCommit}`, `-U${validContextLines}`, "--", file])
GitDiff ==
    /\ pc = "diff"
    /\ \E a \in Answers(File, "diff", DiffAnswers) :
        /\ repo' = Learn(File, "diff", a)
        /\ calls' = Append(calls, [op |-> "diff", U |-> validContextLines,
                                   file |-> File, at |-> idx])
        /\ IF a \in Failures
           THEN /\ Abort(a)
                /\ UNCHANGED <<idx, diffKeys, diffs>>
           ELSE IF a.text = <<>>
           THEN /\ pc' = "startCheck"
                /\ UNCHANGED <<idx, diffKeys, diffs, outcome>>
           ELSE /\ StoreDiff(parseDiffWithLineNumbers(a.text))
                /\ NextFile
                /\ UNCHANGED outcome
    /\ UNCHANGED <<pageVars, parseVars, stripVars, renderVars, request, contextLines, validContextLines,
                   excludedFiles>>

\* await git.raw(["cat-file", "-e", `${startCommit}:${file}`]) inside try/catch,
\* then the unchanged-file branch when it resolved
CatFileStart ==
    /\ pc = "startCheck"
    /\ \E a \in Answers(File, "start", ProbeAnswers) :
        /\ repo' = Learn(File, "start", a)
        /\ calls' = Append(calls, [op |-> "cat-file", rev |-> "start", file |-> File, at |-> idx])
        /\ IF ProbeResolved(a)
           THEN /\ StoreDiff(NoChangesLines)
                /\ NextFile
           ELSE /\ pc' = "show"
                /\ UNCHANGED <<idx, diffKeys, diffs>>
    /\ UNCHANGED <<pageVars, parseVars, stripVars, renderVars, request, contextLines, validContextLines,
                   excludedFiles, outcome>>

\* await git.show([`${endCommit}:${file}`]) and the all-additions synthesis
GitShow ==
    /\ pc = "show"
    /\ \E a \in Answers(File, "show", ShowAnswers) :
        /\ repo' = Learn(File, "show", a)
        /\ calls' = Append(calls, [op |-> "show", rev |-> "end", file |-> File, at |-> idx])
        /\ IF a \in Failures
           THEN /\ Abort(a)
                /\ UNCHANGED <<idx, diffKeys, diffs>>
           ELSE /\ StoreDiff(NewFileLines(a.text))
                /\ NextFile
                /\ UNCHANGED outcome
    /\ UNCHANGED <<pageVars, parseVars, stripVars, renderVars, request, contextLines, validContextLines,
                   excludedFiles>>

\* the loop is over: return { diffs, excludedFiles } / res.json({ diffs, excludedFiles })
Return ==
    /\ pc = "endCheck"
    /\ idx > Len(files)
    /\ pc' = "done"
    /\ outcome' =
         IF entry = "generateDiffs"
         THEN [kind |-> "returned", diffs |-> diffs, keys |-> ObjectKeys(diffKeys),
               excludedFiles |-> excludedFiles]
         ELSE [kind |-> "response", status |-> 200, diffs |-> diffs,
               keys |-> ObjectKeys(diffKeys), excludedFiles |-> excludedFiles]
    /\ UNCHANGED <<pageVars, parseVars, stripVars, renderVars, request, contextLines, validContextLines, idx,
                   diffKeys, diffs, excludedFiles, calls, repo>>

Next ==
    \/ GenerateDiffsCall
    \/ PostDiffRequest
    \/ CatFileEnd
    \/ GitDiff
    \/ CatFileStart
    \/ GitShow
    \/ Return

Spec == InitGen /\ [][Next]_vars

-----------------------------------------------------------------------------
(* The parser applied to bounded diff texts                                *)

MaxDiffLines == 3

DiffTextLines ==
    { Line.fileHeaderDiff, Line.fileHeaderOld, Line.fileHeaderNew, Line.hunkHeader12, Line.hunkHeader57,
      Line.hunkHeaderBad, Line.old, Line.new, Line.context, Line.markerless, <<>> }

\* every text of at most MaxDiffLines lines joined with line feeds
DiffTexts == {Join(ls) : ls \in UNION {[1..n -> DiffTextLines] : n \in 0..MaxDiffLines}}

InitGenIdle ==
    /\ entry = "none"
    /\ startCommit = "undefined"
    /\ endCommit = "undefined"
    /\ filesKind = "undefined"
    /\ files = <<>>
    /\ contextLines = Undefined
    /\ validContextLines = Undefined
    /\ idx = 1
    /\ pc = "idle"
    /\ diffKeys = <<>>
    /\ diffs = <<>>
    /\ excludedFiles = <<>>
    /\ calls = <<>>
    /\ repo = <<>>
    /\ outcome = NoOutcome

\* two hunks of one content line each: header, line, header, line
TwoHunkTexts ==
    {Join(<<h1, l1, h2, l2>>) :
        h1 \in {Line.hunkHeader12, Line.hunkHeader57},
        l1 \in {Line.old, Line.new, Line.context, Line.markerless},
        h2 \in {Line.hunkHeader12, Line.hunkHeader57, Line.hunkHeaderBad},
        l2 \in {Line.old, Line.new, Line.context, Line.markerless}}

\* one hunk of three content lines
OneHunkTexts ==
    {Join(<<h, l1, l2, l3>>) :
        h \in {Line.hunkHeader12, Line.hunkHeader57},
        l1 \in {Line.old, Line.new, Line.context, Line.markerless},
        l2 \in {Line.old, Line.new, Line.context, Line.markerless},
        l3 \in {Line.old, Line.new, Line.context, Line.markerless}}

\* lines that start like the four file-header lines
HeaderLookalikes == {Line.fileHeaderDiff, Line.index, Line.fileHeaderOld, Line.fileHeaderNew}

\* a file-header line, a hunk header, then two content lines that look like
\* file-header lines
LookalikeTexts ==
    {Join(<<pre, Line.hunkHeader12, l1, l2>>) :
        pre \in {Line.fileHeaderDiff, Line.index}, l1 \in HeaderLookalikes, l2 \in HeaderLookalikes}

\* "diff\n--- a\n+++ b": the file-header lines git puts before the first hunk
FileHeaderText == Join(<<Line.fileHeaderDiff, Line.fileHeaderOld, Line.fileHeaderNew>>)

\* the two-hunk texts behind a file header
HeadedTwoHunkTexts == {FileHeaderText \o <<LF>> \o t : t \in TwoHunkTexts}

InitParse ==
    /\ InitPageIdle
    /\ InitGenIdle
    /\ diff \in DiffTexts \cup TwoHunkTexts \cup OneHunkTexts \cup LookalikeTexts
                \cup HeadedTwoHunkTexts
    /\ parsed = [state |-> "pending", lines |-> <<>>]
    /\ stripped = [state |-> "pending", text |-> <<>>]
    /\ InitRenderIdle

\* parseDiffWithLineNumbers(diff): the text is handed to one of the two functions
ParseCall ==
    /\ parsed.state = "pending"
    /\ stripped.state = "pending"
    /\ parsed' = [state |-> "returned", lines |-> parseDiffWithLineNumbers(diff)]
    /\ UNCHANGED <<pageVars, diff, stripVars, renderVars, genVars>>

\* stripDiffHeaders(diff)
StripCall ==
    /\ parsed.state = "pending"
    /\ stripped.state = "pending"
    /\ stripped' = [state |-> "returned", text |-> stripDiffHeaders(diff)]
    /\ UNCHANGED <<pageVars, parseVars, renderVars, genVars>>

NextParse ==
    \/ ParseCall
    \/ StripCall

SpecParse == InitParse /\ [][NextParse]_vars

-----------------------------------------------------------------------------
(* The renderers: formatStdoutDiff and generateMarkdown                    *)

\* Number.prototype.toString for a non-negative integer
RECURSIVE NatToString(_)
NatToString(n) ==
    IF n < 10 THEN <<Digits[n + 1]>>
    ELSE NatToString(n \div 10) \o <<Digits[(n % 10) + 1]>>

\* `${contextLines}`: the decimal text of a number with at most one decimal place
NumToString(v) ==
    LET whole == IF v.whole < 0 THEN <<"-">> \o NatToString(-v.whole) ELSE NatToString(v.whole)
    IN  IF v.frac = 0 THEN whole ELSE whole \o <<".">> \o NatToString(v.frac)

\* the concatenation of a sequence of sequences
RECURSIVE Flatten(_)
Flatten(ss) == IF Len(ss) = 0 THEN <<>> ELSE ss[1] \o Flatten(Tail(ss))

\* diffLines.length === 1 && diffLines[0].content === "NO_CHANGES"
IsNoChangesMarker(diffLines) ==
    /\ Len(diffLines) = 1
    /\ diffLines[1].content = NO_CHANGES

\* the content of every DiffLine, in order
Contents(diffLines) == [k \in 1..Len(diffLines) |-> diffLines[k].content]

\* the text literals of formatStdoutDiff
Stdout ==
    [
      \* --- a/
      oldPrefix |->
        <<"-", "-", "-", " ", "a", "/">>,
      \* +++ b/
      newPrefix |->
        <<"+", "+", "+", " ", "b", "/">>,
      \* (no changes)
      noChanges |->
        <<"(", "n", "o", " ", "c", "h", "a", "n", "g", "e", "s", ")">>,
      \* # Excluded files (not found in end commit):
      excludedTitle |->
        <<"#", " ", "E", "x", "c", "l", "u", "d", "e", "d", " ", "f", "i", "l", "e", "s", " ",
        "(", "n", "o", "t", " ", "f", "o", "u", "n", "d", " ", "i", "n", " ", "e", "n", "d",
        " ", "c", "o", "m", "m", "i", "t", ")", ":">>,
      \* "#   ": the prefix of an excluded path
      excludedPrefix |->
        <<"#", " ", " ", " ">>
    ]

\* the per-file block with the closing empty line left out
StdoutFileNoBlankLine(d, file) ==
    <<Stdout.oldPrefix \o file, Stdout.newPrefix \o file>>
    \o (IF IsNoChangesMarker(d.diffs[file])
        THEN <<Stdout.noChanges>>
        ELSE Contents(d.diffs[file]))

\* formatStdoutDiff: the lines pushed for one file
StdoutFile(d, file) ==
    <<Stdout.oldPrefix \o file, Stdout.newPrefix \o file>>
    \o (IF IsNoChangesMarker(d.diffs[file])
        THEN <<Stdout.noChanges, <<>> >>
        ELSE Contents(d.diffs[file]) \o << <<>> >>)

\* formatStdoutDiff: the lines pushed for the excluded files
StdoutExcluded(d) ==
    IF Len(d.excludedFiles) > 0
    THEN << <<>>, Stdout.excludedTitle >>
         \o [k \in 1..Len(d.excludedFiles) |-> Stdout.excludedPrefix \o d.excludedFiles[k]]
    ELSE <<>>

\* the keys of d.diffs as Object.keys enumerates them
DataKeys(d) == ObjectKeys(d.keys)

formatStdoutDiff(d) ==
    LET keys == DataKeys(d)
    IN  Join(Flatten([k \in 1..Len(keys) |-> StdoutFile(d, keys[k])]) \o StdoutExcluded(d))

\* the character U+0060, which a string of this notation cannot hold
GraveAccent == "grave accent"

\* the text literals of generateMarkdown
Md ==
    [
      \* "# Diff Summary"
      title |->
        <<"#", " ", "D", "i", "f", "f", " ", "S", "u", "m", "m", "a", "r", "y">>,
      \* "## Metadata"
      metadata |->
        <<"#", "#", " ", "M", "e", "t", "a", "d", "a", "t", "a">>,
      \* "- **Repository:** "
      repository |->
        <<"-", " ", "*", "*", "R", "e", "p", "o", "s", "i", "t", "o", "r", "y", ":", "*", "*",
        " ">>,
      \* "- **Start Commit:** "
      startCommit |->
        <<"-", " ", "*", "*", "S", "t", "a", "r", "t", " ", "C", "o", "m", "m", "i", "t", ":",
        "*", "*", " ">>,
      \* "- **End Commit:** "
      endCommit |->
        <<"-", " ", "*", "*", "E", "n", "d", " ", "C", "o", "m", "m", "i", "t", ":", "*", "*",
        " ">>,
      \* "- **Context Lines:** "
      contextLines |->
        <<"-", " ", "*", "*", "C", "o", "n", "t", "e", "x", "t", " ", "L", "i", "n", "e", "s",
        ":", "*", "*", " ">>,
      \* "- **Files Changed:** "
      filesChanged |->
        <<"-", " ", "*", "*", "F", "i", "l", "e", "s", " ", "C", "h", "a", "n", "g", "e", "d",
        ":", "*", "*", " ">>,
      \* "## Excluded Files"
      excludedTitle |->
        <<"#", "#", " ", "E", "x", "c", "l", "u", "d", "e", "d", " ", "F", "i", "l", "e", "s">>,
      \* "The following files were excluded because they do not exist in the end commit:"
      excludedNote |->
        <<"T", "h", "e", " ", "f", "o", "l", "l", "o", "w", "i", "n", "g", " ", "f", "i", "l",
        "e", "s", " ", "w", "e", "r", "e", " ", "e", "x", "c", "l", "u", "d", "e", "d", " ",
        "b", "e", "c", "a", "u", "s", "e", " ", "t", "h", "e", "y", " ", "d", "o", " ", "n",
        "o", "t", " ", "e", "x", "i", "s", "t", " ", "i", "n", " ", "t", "h", "e", " ", "e",
        "n", "d", " ", "c", "o", "m", "m", "i", "t", ":">>,
      \* "- "
      bullet |->
        <<"-", " ">>,
      \* "## File Changes"
      fileChanges |->
        <<"#", "#", " ", "F", "i", "l", "e", " ", "C", "h", "a", "n", "g", "e", "s">>,
      \* "### "
      subsection |->
        <<"#", "#", "#", " ">>,
      \* "*No changes*"
      noChanges |->
        <<"*", "N", "o", " ", "c", "h", "a", "n", "g", "e", "s", "*">>,
      \* the code fence: three backticks
      fence |->
        <<GraveAccent, GraveAccent, GraveAccent>>,
      \* "diff"
      diff |->
        <<"d", "i", "f", "f">>
    ]

\* a code span: the text between two backticks
Code(text) == <<GraveAccent>> \o text \o <<GraveAccent>>

\* generateMarkdown: the title and the metadata list; repository is the text
\* after "- **Repository:** "
MdHead(d, repository) ==
    << Md.title, <<>>, Md.metadata, <<>>,
       Md.repository \o repository,
       Md.startCommit \o Code(d.startCommit),
       Md.endCommit \o Code(d.endCommit),
       Md.contextLines \o NumToString(d.contextLines),
       Md.filesChanged \o NatToString(Len(DataKeys(d))),
       <<>> >>

\* the excluded-files section pushed whether or not a file was excluded
MdExcludedAlways(d) ==
    << Md.excludedTitle, <<>>, Md.excludedNote, <<>> >>
    \o [k \in 1..Len(d.excludedFiles) |-> Md.bullet \o Code(d.excludedFiles[k])]
    \o << <<>> >>

\* generateMarkdown: the excluded-files section
MdExcluded(d) ==
    IF Len(d.excludedFiles) > 0
    THEN << Md.excludedTitle, <<>>, Md.excludedNote, <<>> >>
         \o [k \in 1..Len(d.excludedFiles) |-> Md.bullet \o Code(d.excludedFiles[k])]
         \o << <<>> >>
    ELSE <<>>

\* generateMarkdown: the body of one file's subsection, its code fence opened
\* with the given language
MdBody(d, file, language) ==
    IF IsNoChangesMarker(d.diffs[file])
    THEN << Md.noChanges, <<>> >>
    ELSE << Md.fence \o language >> \o Contents(d.diffs[file]) \o << Md.fence, <<>> >>

\* generateMarkdown (diff.ts): the lines pushed for one file
MdFile(d, file) ==
    << Md.subsection \o Code(file), <<>> >> \o MdBody(d, file, Md.diff)

\* generateMarkdown of diff.ts, used by the command line
generateMarkdown(d) ==
    LET keys == DataKeys(d)
    IN  Join(MdHead(d, Code(d.repoPath))
             \o MdExcluded(d)
             \o << Md.fileChanges, <<>> >>
             \o Flatten([k \in 1..Len(keys) |-> MdFile(d, keys[k])]))

-----------------------------------------------------------------------------
(* The browser page: language lookup and its own generateMarkdown          *)

\* the letters String.prototype.toLowerCase maps, and their images
Alphabet ==
    [
      upper |->
          <<"A", "B", "C", "D", "E", "F", "G", "H", "I", "J", "K", "L", "M", "N", "O", "P", "Q", "R", "S", "T", "U", "V", "W", "X", "Y", "Z">>,
      lower |->
          <<"a", "b", "c", "d", "e", "f", "g", "h", "i", "j", "k", "l", "m", "n", "o", "p", "q", "r", "s", "t", "u", "v", "w", "x", "y", "z">>
    ]

\* String.prototype.toLowerCase, one character
ToLowerChar(c) ==
    IF \E i \in 1..Len(Alphabet.upper) : Alphabet.upper[i] = c
    THEN Alphabet.lower[CHOOSE i \in 1..Len(Alphabet.upper) : Alphabet.upper[i] = c]
    ELSE c

toLowerCase(s) == [i \in 1..Len(s) |-> ToLowerChar(s[i])]

\* filename.split(".").pop(): the piece after the last ".", the whole name when
\* it has none
LastPiece(filename) ==
    LET dots == {i \in 1..Len(filename) : filename[i] = "."}
        last == IF dots = {} THEN 0 ELSE CHOOSE i \in dots : \A j \in dots : j <= i
    IN  SubSeq(filename, last + 1, Len(filename))

\* the extension-to-language table
languageMap ==
    <<
      << <<"j", "s">>, <<"j", "a", "v", "a", "s", "c", "r", "i", "p", "t">> >>,
      << <<"j", "s", "x">>, <<"j", "a", "v", "a", "s", "c", "r", "i", "p", "t">> >>,
      << <<"t", "s">>, <<"t", "y", "p", "e", "s", "c", "r", "i", "p", "t">> >>,
      << <<"t", "s", "x">>, <<"t", "y", "p", "e", "s", "c", "r", "i", "p", "t">> >>,
      << <<"p", "y">>, <<"p", "y", "t", "h", "o", "n">> >>,
      << <<"r", "b">>, <<"r", "u", "b", "y">> >>,
      << <<"j", "a", "v", "a">>, <<"j", "a", "v", "a">> >>,
      << <<"c">>, <<"c">> >>,
      << <<"c", "p", "p">>, <<"c", "p", "p">> >>,
      << <<"c", "c">>, <<"c", "p", "p">> >>,
      << <<"c", "x", "x">>, <<"c", "p", "p">> >>,
      << <<"h">>, <<"c">> >>,
      << <<"h", "p", "p">>, <<"c", "p", "p">> >>,
      << <<"c", "s">>, <<"c", "s", "h", "a", "r", "p">> >>,
      << <<"g", "o">>, <<"g", "o">> >>,
      << <<"r", "s">>, <<"r", "u", "s", "t">> >>,
      << <<"p", "h", "p">>, <<"p", "h", "p">> >>,
      << <<"s", "w", "i", "f", "t">>, <<"s", "w", "i", "f", "t">> >>,
      << <<"k", "t">>, <<"k", "o", "t", "l", "i", "n">> >>,
      << <<"s", "c", "a", "l", "a">>, <<"s", "c", "a", "l", "a">> >>,
      << <<"h", "t", "m", "l">>, <<"h", "t", "m", "l">> >>,
      << <<"h", "t", "m">>, <<"h", "t", "m", "l">> >>,
      << <<"x", "m", "l">>, <<"x", "m", "l">> >>,
      << <<"c", "s", "s">>, <<"c", "s", "s">> >>,
      << <<"s", "c", "s", "s">>, <<"s", "c", "s", "s">> >>,
      << <<"s", "a", "s", "s">>, <<"s", "a", "s", "s">> >>,
      << <<"l", "e", "s", "s">>, <<"l", "e", "s", "s">> >>,
      << <<"j", "s", "o", "n">>, <<"j", "s", "o", "n">> >>,
      << <<"y", "a", "m", "l">>, <<"y", "a", "m", "l">> >>,
      << <<"y", "m", "l">>, <<"y", "a", "m", "l">> >>,
      << <<"m", "d">>, <<"m", "a", "r", "k", "d", "o", "w", "n">> >>,
      << <<"s", "h">>, <<"b", "a", "s", "h">> >>,
      << <<"b", "a", "s", "h">>, <<"b", "a", "s", "h">> >>,
      << <<"z", "s", "h">>, <<"b", "a", "s", "h">> >>,
      << <<"s", "q", "l">>, <<"s", "q", "l">> >>,
      << <<"r">>, <<"r">> >>,
      << <<"m">>, <<"o", "b", "j", "e", "c", "t", "i", "v", "e", "c">> >>,
      << <<"m", "m">>, <<"o", "b", "j", "e", "c", "t", "i", "v", "e", "c">> >>
    >>

\* languageMap is an object literal: a property read also finds what the object
\* inherits from Object.prototype. These are the inherited names that survive
\* toLowerCase, each with the text its value converts to (the values are a
\* function and an object, not strings).
ObjectPrototype ==
    <<
      << <<"c", "o", "n", "s", "t", "r", "u", "c", "t", "o", "r">>,
         <<"f", "u", "n", "c", "t", "i", "o", "n", " ", "O", "b", "j", "e", "c", "t", "(", ")", " ", "{", " ", "[", "n", "a", "t", "i", "v", "e", " ", "c", "o", "d", "e", "]", " ", "}">> >>,
      << <<"_", "_", "p", "r", "o", "t", "o", "_", "_">>,
         <<"[", "o", "b", "j", "e", "c", "t", " ", "O", "b", "j", "e", "c", "t", "]">> >>
    >>

\* languageMap[extension]: the language name, or found = FALSE for undefined
Lookup(extension) ==
    LET hits == {i \in 1..Len(languageMap) : languageMap[i][1] = extension}
        inherited == {i \in 1..Len(ObjectPrototype) : ObjectPrototype[i][1] = extension}
    IN  IF hits # {} THEN [found |-> TRUE, name |-> languageMap[CHOOSE i \in hits : TRUE][2]]
        ELSE IF inherited # {}
        THEN [found |-> TRUE, name |-> ObjectPrototype[CHOOSE i \in inherited : TRUE][2]]
        ELSE [found |-> FALSE, name |-> <<>>]

\* extension ? languageMap[extension] || null : null  (found = FALSE for null)
getLanguageFromFilename(filename) ==
    LET extension == toLowerCase(LastPiece(filename))
    IN  IF Len(extension) > 0 THEN Lookup(extension) ELSE [found |-> FALSE, name |-> <<>>]

\* extension ? languageMap[extension] || "diff" : "diff"
getMarkdownLanguage(filename) ==
    LET extension == toLowerCase(LastPiece(filename))
    IN  IF Len(extension) > 0 /\ Lookup(extension).found
        THEN Lookup(extension).name
        ELSE Md.diff

\* generateMarkdown (script.ts): the lines pushed for one file
FrontendMdFile(d, file) ==
    << Md.subsection \o file, <<>> >> \o MdBody(d, file, getMarkdownLanguage(file))

\* generateMarkdown of script.ts, used by the export button
frontendGenerateMarkdown(d) ==
    LET keys == DataKeys(d)
    IN  Join(MdHead(d, d.repoPath)
             \o MdExcluded(d)
             \o << Md.fileChanges, <<>> >>
             \o Flatten([k \in 1..Len(keys) |-> FrontendMdFile(d, keys[k])]))

-----------------------------------------------------------------------------
(* The browser page: escapeHtml, highlightLine, formatDiff, displayDiffs   *)

\* s.replace(/c/g, replacement) for a one-character pattern
ReplaceAll(s, c, replacement) ==
    Flatten([i \in 1..Len(s) |-> IF s[i] = c THEN replacement ELSE <<s[i]>>])

\* the replacement texts of escapeHtml
Entity ==
    [
      \* the entity &amp;
      amp |->
        <<"&", "a", "m", "p", ";">>,
      \* the entity &lt;
      lt |->
        <<"&", "l", "t", ";">>,
      \* the entity &gt;
      gt |->
        <<"&", "g", "t", ";">>,
      \* the entity &quot;
      quot |->
        <<"&", "q", "u", "o", "t", ";">>,
      \* the entity &#039;
      apos |->
        <<"&", "#", "0", "3", "9", ";">>
    ]

\* the five replacements with the ampersand replaced last, after the entities
\* of the other four were put in
escapeHtmlAmpersandLast(unsafe) ==
    ReplaceAll(
        ReplaceAll(
            ReplaceAll(
                ReplaceAll(
                    ReplaceAll(unsafe, "<", Entity.lt),
                    ">", Entity.gt),
                "\"", Entity.quot),
            "'", Entity.apos),
        "&", Entity.amp)

\* unsafe.replace(/&/g, "&amp;").replace(/</g, "&lt;").replace(/>/g, "&gt;")
\*       .replace(/"/g, "&quot;").replace(/'/g, "&#039;")
escapeHtml(unsafe) ==
    ReplaceAll(
        ReplaceAll(
            ReplaceAll(
                ReplaceAll(
                    ReplaceAll(unsafe, "&", Entity.amp),
                    "<", Entity.lt),
                ">", Entity.gt),
            "\"", Entity.quot),
        "'", Entity.apos)

\* what the highlighter may be on the page: not loaded, throwing, or returning
\* markup of its own around the escaped code
HljsStates == {"undefined", "throws", "returns"}

\* the markup literals of highlightLine, formatDiff, displayDiffs and the submit handler
Html ==
    [
      \* <span class="hljs-x">
      hljsOpen |->
        <<"<", "s", "p", "a", "n", " ", "c", "l", "a", "s", "s", "=", "\"", "h", "l", "j", "s",
        "-", "x", "\"", ">">>,
      \* </span>
      spanClose |->
        <<"<", "/", "s", "p", "a", "n", ">">>,
      \* <span class="line-number">
      lineNumberOpen |->
        <<"<", "s", "p", "a", "n", " ", "c", "l", "a", "s", "s", "=", "\"", "l", "i", "n", "e",
        "-", "n", "u", "m", "b", "e", "r", "\"", ">">>,
      \* <span class="addition">
      additionOpen |->
        <<"<", "s", "p", "a", "n", " ", "c", "l", "a", "s", "s", "=", "\"", "a", "d", "d", "i",
        "t", "i", "o", "n", "\"", ">">>,
      \* <span class="deletion">
      deletionOpen |->
        <<"<", "s", "p", "a", "n", " ", "c", "l", "a", "s", "s", "=", "\"", "d", "e", "l", "e",
        "t", "i", "o", "n", "\"", ">">>,
      \* the warning template up to the list items
      warningOpen |->
        <<LF, " ", " ", " ", " ", " ", " ", " ", " ", "<", "s", "t", "r", "o", "n", "g", ">",
        "W", "a", "r", "n", "i", "n", "g", ":", "<", "/", "s", "t", "r", "o", "n", "g", ">",
        " ", "T", "h", "e", " ", "f", "o", "l", "l", "o", "w", "i", "n", "g", " ", "f", "i",
        "l", "e", "(", "s", ")", " ", "w", "e", "r", "e", " ", "e", "x", "c", "l", "u", "d",
        "e", "d", " ", "f", "r", "o", "m", " ", "t", "h", "e", " ", "d", "i", "f", "f", " ",
        "b", "e", "c", "a", "u", "s", "e", " ", "t", "h", "e", "y", " ", "d", "o", " ", "n",
        "o", "t", " ", "e", "x", "i", "s", "t", " ", "i", "n", " ", "t", "h", "e", " ", "e",
        "n", "d", " ", "c", "o", "m", "m", "i", "t", ":", LF, " ", " ", " ", " ", " ", " ",
        " ", " ", "<", "u", "l", " ", "c", "l", "a", "s", "s", "=", "\"", "m", "b", "-", "0",
        " ", "m", "t", "-", "2", "\"", ">", LF, " ", " ", " ", " ", " ", " ", " ", " ", " ",
        " ">>,
      \* the warning template after the list items
      warningClose |->
        <<LF, " ", " ", " ", " ", " ", " ", " ", " ", "<", "/", "u", "l", ">", LF, " ", " ",
        " ", " ", " ", " ">>,
      \* <li>
      listItemOpen |->
        <<"<", "l", "i", ">">>,
      \* </li>
      listItemClose |->
        <<"<", "/", "l", "i", ">">>,
      \* <p class="text-muted mb-0"><em>No changes</em></p>
      noChangesHtml |->
        <<"<", "p", " ", "c", "l", "a", "s", "s", "=", "\"", "t", "e", "x", "t", "-", "m", "u",
        "t", "e", "d", " ", "m", "b", "-", "0", "\"", ">", "<", "e", "m", ">", "N", "o", " ",
        "c", "h", "a", "n", "g", "e", "s", "<", "/", "e", "m", ">", "<", "/", "p", ">">>,
      \* <div class="alert alert-danger">
      errorOpen |->
        <<"<", "d", "i", "v", " ", "c", "l", "a", "s", "s", "=", "\"", "a", "l", "e", "r", "t",
        " ", "a", "l", "e", "r", "t", "-", "d", "a", "n", "g", "e", "r", "\"", ">">>,
      \* </div>
      divClose |->
        <<"<", "/", "d", "i", "v", ">">>
    ]

\* hljs.highlight(codeContent, {language}).value when the call returns
HljsValue(codeContent) == Html.hljsOpen \o escapeHtml(codeContent) \o Html.spanClose

\* line.startsWith("+") || line.startsWith("-") || line.startsWith(" ")
HasDiffMarker(line) ==
    StartsWith(line, <<"+">>) \/ StartsWith(line, <<"-">>) \/ StartsWith(line, <<" ">>)

highlightLine(line, language, hljs) ==
    IF Len(line) = 0 THEN line
    ELSE LET diffMarker == IF HasDiffMarker(line) THEN <<line[1]>> ELSE <<>>
             codeContent == IF HasDiffMarker(line) THEN Tail(line) ELSE line
             highlightedCode ==
                 IF language.found /\ hljs = "returns"
                 THEN HljsValue(codeContent)
                 ELSE escapeHtml(codeContent)
         IN  diffMarker \o highlightedCode

\* text.padStart(4, " ")
PadStart4(text) ==
    IF Len(text) >= 4 THEN text ELSE [i \in 1..(4 - Len(text)) |-> " "] \o text

\* formatDiff: the gutter of one line
LineNumbers(diffLine) ==
    LET oldNum == IF HasOld(diffLine) THEN PadStart4(NatToString(diffLine.oldLineNumber))
                  ELSE <<" ", " ", " ", " ">>
        newNum == IF HasNew(diffLine) THEN PadStart4(NatToString(diffLine.newLineNumber))
                  ELSE <<" ", " ", " ", " ">>
    IN  Html.lineNumberOpen \o escapeHtml(oldNum) \o <<" ">> \o escapeHtml(newNum) \o Html.spanClose

\* formatDiff: the HTML of one line
FormatLine(diffLine, language, hljs) ==
    LET line == diffLine.content
        highlightedLine == highlightLine(line, language, hljs)
    IN  IF StartsWith(line, <<"+">>)
        THEN LineNumbers(diffLine) \o Html.additionOpen \o highlightedLine \o Html.spanClose
        ELSE IF StartsWith(line, <<"-">>)
        THEN LineNumbers(diffLine) \o Html.deletionOpen \o highlightedLine \o Html.spanClose
        ELSE LineNumbers(diffLine) \o highlightedLine

formatDiff(diffLines, filename, hljs) ==
    LET language == getLanguageFromFilename(filename)
    IN  Join([k \in 1..Len(diffLines) |-> FormatLine(diffLines[k], language, hljs)])

\* displayDiffs: the warning element
WarningDiv(excluded) ==
    [className |-> "alert alert-warning", header |-> <<>>, contentClass |-> "",
     innerHTML |-> Html.warningOpen
                   \o Flatten([k \in 1..Len(excluded) |->
                                  Html.listItemOpen \o escapeHtml(excluded[k]) \o Html.listItemClose])
                   \o Html.warningClose]

\* displayDiffs: the element built for one file (header.textContent = file)
DiffContainer(d, file, hljs) ==
    IF IsNoChangesMarker(d.diffs[file])
    THEN [className |-> "diff-container", header |-> file,
          contentClass |-> "diff-content no-changes", innerHTML |-> Html.noChangesHtml]
    ELSE [className |-> "diff-container", header |-> file,
          contentClass |-> "diff-content",
          innerHTML |-> formatDiff(d.diffs[file], file, hljs)]

\* displayDiffs(diffs, excludedFiles): the children appended to #diff-summary
displayDiffs(d, hljs) ==
    LET keys == DataKeys(d)
    IN  (IF Len(d.excludedFiles) > 0 THEN <<WarningDiv(d.excludedFiles)>> ELSE <<>>)
        \o [k \in 1..Len(keys) |-> DiffContainer(d, keys[k], hljs)]

-----------------------------------------------------------------------------
(* The renderers applied to bounded DiffResults                            *)

MaxRenderFiles == 2

\* a name with a known extension, an array-index key and a name without extension
RenderPaths == { <<"a", ".", "j", "s">>, <<"2">>, <<"b">> }

\* the keys of a diffs object in creation order: distinct paths
KeyLists ==
    {ks \in UNION {[1..n -> RenderPaths] : n \in 0..MaxRenderFiles} :
        \A i, j \in 1..Len(ks) : ks[i] = ks[j] => i = j}

\* "+<a&b>" added and " 'q\"" kept: contents with the five characters HTML escapes
SpecialLines ==
    << [content |-> <<"+", "<", "a", "&", "b", ">">>, newLineNumber |-> 1],
       [content |-> <<" ", "'", "q", "\"">>, oldLineNumber |-> 12, newLineNumber |-> 2] >>

\* DiffLine sequences generateDiffs stores: the marker of an unchanged file, parsed
\* diffs (one of them empty, one with the marker's text as content), and lines
\* with HTML-special characters
RenderLines ==
    { NoChangesLines,
      parseDiffWithLineNumbers(ScenarioDiff),
      parseDiffWithLineNumbers(FileHeaderText),
      parseDiffWithLineNumbers(MarkerTextDiff),
      SpecialLines }

\* the request metadata and the excluded paths of the bounded render data
Sample ==
    [
      plainName |->
          <<"o", ".", "t", "s">>,
      \* a path made of the five characters HTML escapes
      specialName |->
          <<"<", "&", ">", "\"", "'">>,
      repoPath |->
          <<"/", "r">>,
      startCommit |->
          <<"a", "b", "c", "1", "2", "3">>,
      endCommit |->
          <<"d", "e", "f", "4", "5", "6">>
    ]

ExcludedLists == { <<>>, <<Sample.plainName>>, <<Sample.plainName, Sample.specialName>>, <<Sample.specialName, Sample.plainName>> }

\* the data handed to a renderer: a DiffResult of generateDiffs with the request's
\* metadata
RenderData ==
    {[kind |-> "data", repoPath |-> Sample.repoPath, startCommit |-> Sample.startCommit,
      endCommit |-> Sample.endCommit, contextLines |-> c, keys |-> ks, diffs |-> ds,
      excludedFiles |-> ex] :
        c \in {Num(DefaultContextLines, 0), Num(10, 0)},
        ks \in KeyLists,
        ds \in UNION {[{ks[i] : i \in 1..Len(ks)} -> RenderLines] : ks \in KeyLists},
        ex \in ExcludedLists}

InitRender ==
    /\ InitPageIdle
    /\ InitGenIdle
    /\ InitParseIdle
    /\ InitStripIdle
    /\ data \in {d \in RenderData : DOMAIN d.diffs = {d.keys[i] : i \in 1..Len(d.keys)}}
    /\ rendered = [by |-> "pending", text |-> <<>>]
    /\ diffSummary = [innerHTML |-> <<>>, children |-> <<>>]

\* output = formatStdoutDiff(result)
FormatStdoutCall ==
    /\ rendered.by = "pending"
    /\ rendered' = [by |-> "formatStdoutDiff", text |-> formatStdoutDiff(data)]
    /\ UNCHANGED <<pageVars, data, diffSummary, parseVars, stripVars, genVars>>

\* output = generateMarkdown({repoPath, startCommit, endCommit, contextLines, diffs, excludedFiles})
GenerateMarkdownCall ==
    /\ rendered.by = "pending"
    /\ rendered' = [by |-> "generateMarkdown", text |-> generateMarkdown(data)]
    /\ UNCHANGED <<pageVars, data, diffSummary, parseVars, stripVars, genVars>>

\* the export button: const markdown = generateMarkdown(currentDiffData)
ExportMarkdownClick ==
    /\ rendered.by = "pending"
    /\ rendered' = [by |-> "export", text |-> frontendGenerateMarkdown(data)]
    /\ UNCHANGED <<pageVars, data, diffSummary, parseVars, stripVars, genVars>>

\* what the submit handler's catch block may find in error.message
ErrorMessages == { <<"n", "o">>, <<"<", "b", ">", "&", "'", "\"">> }

\* the submit handler after a successful response: displayDiffs(diffs.diffs, diffs.excludedFiles)
DisplayDiffsCall ==
    /\ rendered.by = "pending"
    /\ rendered' = [by |-> "displayDiffs", text |-> <<>>]
    /\ \E hljs \in HljsStates :
          diffSummary' = [innerHTML |-> <<>>, children |-> displayDiffs(data, hljs)]
    /\ UNCHANGED <<pageVars, data, parseVars, stripVars, genVars>>

\* the submit handler's catch block: the error message shown in #diff-summary
SubmitFailed ==
    /\ rendered.by = "pending"
    /\ \E message \in ErrorMessages :
          /\ rendered' = [by |-> "submitFailed", text |-> message]
          /\ diffSummary' = [innerHTML |-> Html.errorOpen \o escapeHtml(message) \o Html.divClose,
                             children |-> <<>>]
    /\ UNCHANGED <<pageVars, data, parseVars, stripVars, genVars>>

NextRender ==
    \/ FormatStdoutCall
    \/ GenerateMarkdownCall
    \/ ExportMarkdownClick
    \/ DisplayDiffsCall
    \/ SubmitFailed

SpecRender == InitRender /\ [][NextRender]_vars

-----------------------------------------------------------------------------
(* Properties of the acquisition loop (checked under Spec)                 *)

\* a DiffResult came back: generateDiffs returned, or the handler answered 200
Succeeded ==
    \/ outcome.kind = "returned"
    \/ outcome.kind = "response" /\ outcome.status = 200

IssuedFor(op, p) ==
    \E k \in 1..Len(calls) : calls[k].op = op /\ calls[k].file = p

Requested(p) == \E i \in 1..Len(files) : files[i] = p

\* exists at the end revision, empty diff, exists at the start revision
Unchanged(p) ==
    /\ pc # "idle"
    /\ repo[p].end = "exists"
    /\ repo[p].diff = Resolved(<<>>)
    /\ repo[p].start = "exists"

Sentinel == << [content |-> <<"N", "O", "_", "C", "H", "A", "N", "G", "E", "S">>] >>

\* C1: a file that exists at both revisions and has an empty diff is stored as
\* exactly [{content: "NO_CHANGES"}], with no line number, in the loop's diffs and
\* in the DiffResult handed back, and git show is never called for it.
C1_UnchangedIsSentinel ==
    \A p \in Paths :
        Unchanged(p) =>
            /\ p \in DOMAIN diffs
            /\ diffs[p] = Sentinel
            /\ ~IssuedFor("show", p)
            /\ Succeeded => outcome.diffs[p] = Sentinel

C1_Witness ==
    /\ Succeeded
    /\ \E p \in Paths : Requested(p) /\ Unchanged(p)
    /\ \E p \in Paths : Requested(p) /\ IssuedFor("show", p)

EndCheckFailed(p) == pc # "idle" /\ repo[p].end \in {"absent", "error"}

\* the requested entries whose end-revision check failed, in request order
RECURSIVE FailedAtEnd(_)
FailedAtEnd(fs) ==
    IF Len(fs) = 0 THEN <<>>
    ELSE IF EndCheckFailed(fs[1]) THEN <<fs[1]>> \o FailedAtEnd(Tail(fs))
    ELSE FailedAtEnd(Tail(fs))

\* C2: after a successful run excludedFiles is exactly the requested paths whose
\* end-revision check failed, in request order, and none of them is a key of diffs.
C2_ExcludedInRequestOrder ==
    Succeeded =>
        /\ outcome.excludedFiles = FailedAtEnd(files)
        /\ \A i \in 1..Len(outcome.excludedFiles) :
              outcome.excludedFiles[i] \notin DOMAIN outcome.diffs

C2_Witness ==
    /\ Succeeded
    /\ Len(files) = 2
    /\ Len(outcome.excludedFiles) = 2
    /\ outcome.excludedFiles[1] # outcome.excludedFiles[2]


\* the lines of a text: a final line terminator ends the last line, it does not
\* start another one
TextLines(t) ==
    IF Len(t) > 0 /\ t[Len(t)] = LF THEN Split(SubSeq(t, 1, Len(t) - 1)) ELSE Split(t)

\* exists at the end revision, empty diff, absent at the start revision, and
\* git show delivered the content
NewFile(p) ==
    /\ pc # "idle"
    /\ repo[p].end = "exists"
    /\ repo[p].diff = Resolved(<<>>)
    /\ repo[p].start = "absent"
    /\ repo[p].show.state = "resolved"
    /\ p \in DOMAIN diffs

\* C3 (as claimed): a new file whose content has N lines is stored as N DiffLines,
\* the i-th with content "+" followed by the i-th line, newLineNumber = i and no
\* oldLineNumber, also when the content ends with a line terminator. (Stated for
\* non-empty contents; the line count of the empty text is a matter of convention.)
C3_NewFileOneDiffLinePerLine ==
    \A p \in Paths :
        (NewFile(p) /\ repo[p].show.text # <<>>) =>
            LET ls == TextLines(repo[p].show.text)
            IN  /\ Len(diffs[p]) = Len(ls)
                /\ \A i \in 1..Len(ls) :
                      diffs[p][i] = [content |-> <<"+">> \o ls[i], newLineNumber |-> i]

\* the answer the repository gave to call c of a promise-returning operation
AnswerTo(c) == repo[c.file][c.op]

RejectedCall(k) ==
    /\ calls[k].op \in {"diff", "show"}
    /\ AnswerTo(calls[k]).state = "rejected"

\* C4: when git diff or git show rejects for the i-th file, generateDiffs rejects
\* with that very failure (the POST handler answers 500), no DiffResult is handed
\* back, and the rejected call is the last collaborator call ever issued.
C4_RetrievalFailureAborts ==
    \A k \in 1..Len(calls) :
        RejectedCall(k) =>
            /\ k = Len(calls)
            /\ pc = "done"
            /\ ~Succeeded
            /\ entry = "generateDiffs" =>
                  /\ outcome.kind = "thrown"
                  /\ outcome.failure = AnswerTo(calls[k])
            /\ entry = "post" =>
                  /\ outcome.kind = "response"
                  /\ outcome.status = 500

C4_Witness ==
    /\ entry = "generateDiffs"
    /\ outcome.kind = "thrown"
    /\ Len(files) = 2
    /\ idx = 1
    /\ RejectedCall(Len(calls))

\* C5 (as claimed): an existence probe that fails for a reason other than the
\* file being absent aborts the request; only a file absent at the end revision is
\* excluded and only a file absent at the start revision is treated as new.
C5_ProbeFailureAborts ==
    /\ \A k \in 1..Len(calls) :
          (calls[k].op = "cat-file" /\ repo[calls[k].file][calls[k].rev] = "error") =>
              /\ k = Len(calls)
              /\ pc = "done"
              /\ ~Succeeded
    /\ \A i \in 1..Len(excludedFiles) : repo[excludedFiles[i]].end = "absent"
    /\ \A p \in Paths : IssuedFor("show", p) => repo[p].start = "absent"

IsEndCheck(c, file, at) ==
    c.op = "cat-file" /\ c.rev = "end" /\ c.file = file /\ c.at = at

IsStartCheck(c, file, at) ==
    c.op = "cat-file" /\ c.rev = "start" /\ c.file = file /\ c.at = at

\* C6: for every requested file the end-revision check comes right before the
\* diff call, the start-revision check is issued only after the diff call
\* resolved with the empty text, git show only after that check, and a file whose
\* end-revision check failed gets no diff, start-revision check or show call.
C6_CheckPrecedesDiff ==
    /\ \A k \in 1..Len(calls) :
          LET c == calls[k]
          IN  /\ c.op = "diff" =>
                    /\ k > 1
                    /\ IsEndCheck(calls[k - 1], c.file, c.at)
                    /\ repo[c.file].end = "exists"
              /\ (c.op = "cat-file" /\ c.rev = "start") =>
                    /\ k > 1
                    /\ calls[k - 1].op = "diff"
                    /\ calls[k - 1].file = c.file
                    /\ calls[k - 1].at = c.at
                    /\ repo[c.file].diff = Resolved(<<>>)
              /\ c.op = "show" =>
                    /\ k > 1
                    /\ IsStartCheck(calls[k - 1], c.file, c.at)
    /\ \A p \in Paths :
          EndCheckFailed(p) =>
              \A k \in 1..Len(calls) :
                  calls[k].file = p => IsEndCheck(calls[k], p, calls[k].at)

C6_Witness ==
    /\ Succeeded
    /\ \E p, q \in Paths :
          /\ EndCheckFailed(p)
          /\ Requested(p)
          /\ IssuedFor("show", q)

\* the width the validation policy prescribes for a requested value
PolicyWidth(v) ==
    IF v.t = "number" /\ v.frac = 0 /\ v.whole >= 1 /\ v.whole <= 999999
    THEN v
    ELSE Num(3, 0)

\* C7 (as claimed): every diff call of a request, through generateDiffs or through
\* the POST handler, carries the requested width when it is an integer in
\* 1..999999 and 3 otherwise.
C7_WidthNormalized ==
    \A k \in 1..Len(calls) :
        calls[k].op = "diff" => calls[k].U = PolicyWidth(contextLines)

Distinct(fs) == \A i, j \in 1..Len(fs) : fs[i] = fs[j] => i = j

\* the requested entries that were not excluded, in request order
RECURSIVE KeptInOrder(_)
KeptInOrder(fs) ==
    IF Len(fs) = 0 THEN <<>>
    ELSE IF EndCheckFailed(fs[1]) THEN KeptInOrder(Tail(fs))
    ELSE <<fs[1]>> \o KeptInOrder(Tail(fs))

\* C8 (as claimed): for a request list of distinct paths, digit-only paths
\* included, enumerating the keys of the returned diffs object yields the
\* non-excluded paths in request order.
C8_KeysInRequestOrder ==
    (Succeeded /\ Distinct(files)) => outcome.keys = KeptInOrder(files)


\* the test the three renderers apply to a file's DiffLine sequence
RenderedAsUnchanged(diffLines) ==
    /\ Len(diffLines) = 1
    /\ diffLines[1].content = <<"N", "O", "_", "C", "H", "A", "N", "G", "E", "S">>

\* C16 (as claimed): in every DiffResult handed back, whatever raw diff text and
\* file content the repository returned, a DiffLine whose content is
\* "NO_CHANGES" carries no line number and is the only element of its sequence,
\* so the renderers' test (one element, content "NO_CHANGES") is true exactly
\* for the files that are unchanged.
C16_SentinelOnlyForUnchanged ==
    Succeeded =>
        \A p \in DOMAIN outcome.diffs :
            /\ \A k \in 1..Len(outcome.diffs[p]) :
                  outcome.diffs[p][k].content = <<"N", "O", "_", "C", "H", "A", "N", "G", "E", "S">> =>
                      /\ ~HasOld(outcome.diffs[p][k])
                      /\ ~HasNew(outcome.diffs[p][k])
                      /\ Len(outcome.diffs[p]) = 1
            /\ RenderedAsUnchanged(outcome.diffs[p]) <=> Unchanged(p)

-----------------------------------------------------------------------------
(* Properties of the parser (checked under SpecParse)                      *)

InputLines == Split(diff)

\* the well-formed hunk headers among the input lines, with the starts they
\* announce, written out by hand
WellFormedHeaders == {Line.hunkHeader12, Line.hunkHeader57}

AnnouncedOld(header) == IF header = Line.hunkHeader12 THEN 1 ELSE 5

AnnouncedNew(header) == IF header = Line.hunkHeader12 THEN 1 ELSE 7

AllHeadersWellFormed ==
    \A i \in 1..Len(InputLines) :
        IsHunkLine(InputLines[i]) => InputLines[i] \in WellFormedHeaders

\* C9: when every hunk header of the diff is well-formed, every emitted DiffLine
\* has at least one line number, so the lines with newLineNumber plus the lines
\* with only oldLineNumber are all the lines; a line has only newLineNumber iff
\* its content starts with "+", only oldLineNumber iff it starts with "-", and
\* both otherwise.
C9_EveryLineNumbered ==
    (parsed.state = "returned" /\ AllHeadersWellFormed) =>
        LET out == parsed.lines
            withNew == {k \in 1..Len(out) : HasNew(out[k])}
            onlyOld == {k \in 1..Len(out) : HasOld(out[k]) /\ ~HasNew(out[k])}
        IN  /\ \A k \in 1..Len(out) :
                  /\ HasOld(out[k]) \/ HasNew(out[k])
                  /\ (HasNew(out[k]) /\ ~HasOld(out[k])) <=> StartsWith(out[k].content, <<"+">>)
                  /\ (HasOld(out[k]) /\ ~HasNew(out[k])) <=> StartsWith(out[k].content, <<"-">>)
                  /\ (HasOld(out[k]) /\ HasNew(out[k])) <=>
                        /\ ~StartsWith(out[k].content, <<"+">>)
                        /\ ~StartsWith(out[k].content, <<"-">>)
            /\ Cardinality(withNew) + Cardinality(onlyOld) = Len(out)

C9_Witness ==
    /\ parsed.state = "returned"
    /\ AllHeadersWellFormed
    /\ Len(parsed.lines) = 3
    /\ \E k \in 1..3 : HasOld(parsed.lines[k]) /\ HasNew(parsed.lines[k])
    /\ \E k \in 1..3 : HasOld(parsed.lines[k]) /\ ~HasNew(parsed.lines[k])
    /\ \E k \in 1..3 : HasNew(parsed.lines[k]) /\ ~HasOld(parsed.lines[k])

\* positions of the input lines that lie after some "@@ " line, are no "@@ "
\* line themselves and are not empty: the lines the parser emits
EmittedPositions ==
    LET lines == InputLines
    IN  {j \in 1..Len(lines) :
            /\ \E h \in 1..(j - 1) : IsHunkLine(lines[h])
            /\ ~IsHunkLine(lines[j])
            /\ lines[j] # <<>>}

\* position in the output of the DiffLine emitted for input line j
OutputIndex(j) == Cardinality({e \in EmittedPositions : e <= j})

\* the "@@ " line that opens the hunk input line j lies in
HunkOf(j) ==
    LET lines == InputLines
    IN  CHOOSE h \in 1..(j - 1) :
            /\ IsHunkLine(lines[h])
            /\ \A g \in (h + 1)..(j - 1) : ~IsHunkLine(lines[g])

\* how many emitted lines of j's hunk, up to and including j, carry an old number
OldRank(j) ==
    LET h == HunkOf(j)
        emitted == EmittedPositions
    IN  Cardinality({e \in emitted :
            h < e /\ e <= j /\ HasOld(parsed.lines[Cardinality({f \in emitted : f <= e})])})

NewRank(j) ==
    LET h == HunkOf(j)
        emitted == EmittedPositions
    IN  Cardinality({e \in emitted :
            h < e /\ e <= j /\ HasNew(parsed.lines[Cardinality({f \in emitted : f <= e})])})

\* C10: in a hunk opened by a well-formed header "@@ -a[,x] +b[,y] @@" the k-th
\* emitted line that carries an oldLineNumber has oldLineNumber = a + k - 1 and
\* the k-th that carries a newLineNumber has newLineNumber = b + k - 1; a later
\* header starts again from its own a and b; and the scenario diff
\* "@@ -1,2 +1,2 @@\n-old line\n+new line" parses to the two lines of the spec.
C10_NumbersFollowHunkHeader ==
    parsed.state = "returned" =>
        /\ Len(parsed.lines) = Cardinality(EmittedPositions)
        /\ \A j \in EmittedPositions :
              LET r == parsed.lines[OutputIndex(j)]
                  header == InputLines[HunkOf(j)]
              IN  header \in WellFormedHeaders =>
                      /\ r.content = InputLines[j]
                      /\ HasOld(r) => r.oldLineNumber = AnnouncedOld(header) + OldRank(j) - 1
                      /\ HasNew(r) => r.newLineNumber = AnnouncedNew(header) + NewRank(j) - 1
        /\ diff = ScenarioDiff =>
              parsed.lines = << [content |-> Line.old, oldLineNumber |-> 1],
                                [content |-> Line.new, newLineNumber |-> 1] >>

\* two hunks: a context line numbered by the first header, then a line numbered
\* by the second header
C10_Witness ==
    /\ parsed.state = "returned"
    /\ InputLines = <<Line.hunkHeader12, Line.context, Line.hunkHeader57, Line.old>>
    /\ parsed.lines = << [content |-> Line.context, oldLineNumber |-> 1, newLineNumber |-> 1],
                         [content |-> Line.old, oldLineNumber |-> 5] >>

\* C11 (as claimed): stripping is idempotent: stripping the text stripDiffHeaders
\* returned gives that same text again.
C11_StripIdempotent ==
    stripped.state = "returned" =>
        stripDiffHeaders(stripped.text) = stripped.text

\* positions of the input lines that lie after some "@@ " line and are no "@@ "
\* line themselves: the content lines of the hunks, empty ones included
ContentPositions ==
    LET lines == InputLines
    IN  {j \in 1..Len(lines) :
            /\ \E h \in 1..(j - 1) : IsHunkLine(lines[h])
            /\ ~IsHunkLine(lines[j])}

\* the k-th smallest element of a set of positions
PositionAt(S, k) == CHOOSE j \in S : Cardinality({e \in S : e <= j}) = k

\* the content lines of the hunks in input order
ContentLines ==
    [k \in 1..Cardinality(ContentPositions) |-> InputLines[PositionAt(ContentPositions, k)]]

\* the content positions without the empty piece that split leaves after a final
\* line feed, which is no line of the text
LinePositions ==
    {j \in ContentPositions : ~(j = Len(InputLines) /\ InputLines[j] = <<>>)}

\* C12 (as claimed): empty lines are dropped only before the first hunk header;
\* after it every line that is no hunk header, the empty line included, yields
\* exactly one DiffLine, so the output has one DiffLine per content line of the
\* text, with that line as its content.
C12_EmptyLinesKeptInHunk ==
    parsed.state = "returned" =>
        /\ Len(parsed.lines) = Cardinality(LinePositions)
        /\ \A k \in 1..Cardinality(LinePositions) :
              parsed.lines[k].content = InputLines[PositionAt(LinePositions, k)]

\* a line that starts with "@@ " and fails the hunk-header pattern
Malformed(line) == IsHunkLine(line) /\ line \notin WellFormedHeaders

\* the last well-formed header before input line j, 0 when there is none
CountersSetAt(j) ==
    LET lines == InputLines
        hs == {h \in 1..(j - 1) : lines[h] \in WellFormedHeaders}
    IN  IF hs = {} THEN 0 ELSE CHOOSE h \in hs : \A g \in hs : g <= h

CounterOld(j) == IF CountersSetAt(j) = 0 THEN 0 ELSE AnnouncedOld(InputLines[CountersSetAt(j)])

CounterNew(j) == IF CountersSetAt(j) = 0 THEN 0 ELSE AnnouncedNew(InputLines[CountersSetAt(j)])

\* the emitted lines after the counters were last set, up to and including j
SinceCountersSet(j) ==
    LET h == CountersSetAt(j)
    IN  {e \in EmittedPositions : h < e /\ e <= j}

\* C13: a line that starts with "@@ " and fails the pattern emits no DiffLine and
\* leaves both counters as they are: the lines after it are emitted and numbered
\* on from the values the counters had, those of the last well-formed header (0
\* when there was none) advanced by the lines emitted since.
C13_MalformedHeaderKeepsCounters ==
    parsed.state = "returned" =>
        /\ Len(parsed.lines) = Cardinality(EmittedPositions)
        /\ \A j \in EmittedPositions :
              Malformed(InputLines[HunkOf(j)]) =>
                  LET r == parsed.lines[OutputIndex(j)]
                      olds == {e \in SinceCountersSet(j) : HasOld(parsed.lines[OutputIndex(e)])}
                      news == {e \in SinceCountersSet(j) : HasNew(parsed.lines[OutputIndex(e)])}
                  IN  /\ r.content = InputLines[j]
                      /\ HasOld(r) => r.oldLineNumber = CounterOld(j) + Cardinality(olds) - 1
                      /\ HasNew(r) => r.newLineNumber = CounterNew(j) + Cardinality(news) - 1

\* a context line numbered 1/1, a malformed header, then a deletion numbered 2
C13_Witness ==
    /\ parsed.state = "returned"
    /\ InputLines = <<Line.hunkHeader12, Line.context, Line.hunkHeaderBad, Line.old>>
    /\ parsed.lines = << [content |-> Line.context, oldLineNumber |-> 1, newLineNumber |-> 1],
                         [content |-> Line.old, oldLineNumber |-> 2] >>

\* does the line start with "diff", "index", "---" or "+++"
LooksLikeFileHeader(line) ==
    \/ StartsWith(line, <<"d", "i", "f", "f">>)
    \/ StartsWith(line, <<"i", "n", "d", "e", "x">>)
    \/ StartsWith(line, <<"-", "-", "-">>)
    \/ StartsWith(line, <<"+", "+", "+">>)

\* position among the content lines of input line j
ContentIndex(j) == Cardinality({e \in ContentPositions : e <= j})

StrippedLines == Split(stripped.text)

\* C14: after the first hunk header a line that starts with "diff", "index",
\* "---" or "+++" is content for both functions: stripDiffHeaders puts it out
\* verbatim at its place among the content lines, and the parser emits one
\* DiffLine for it, classified by its first character ("---" a deletion, "+++"
\* an addition, "diff" and "index" context).
C14_HeaderLookalikesAreContent ==
    \A j \in ContentPositions :
        LooksLikeFileHeader(InputLines[j]) =>
            /\ stripped.state = "returned" =>
                  /\ Len(StrippedLines) = Cardinality(ContentPositions)
                  /\ StrippedLines[ContentIndex(j)] = InputLines[j]
            /\ parsed.state = "returned" =>
                  /\ j \in EmittedPositions
                  /\ Len(parsed.lines) = Cardinality(EmittedPositions)
                  /\ LET r == parsed.lines[OutputIndex(j)]
                     IN  /\ r.content = InputLines[j]
                         /\ InputLines[j][1] = "-" => (HasOld(r) /\ ~HasNew(r))
                         /\ InputLines[j][1] = "+" => (HasNew(r) /\ ~HasOld(r))
                         /\ InputLines[j][1] \in {"d", "i"} => (HasOld(r) /\ HasNew(r))

\* "diff" as a file header, then "--- a" and "index" inside the hunk
C14_Witness ==
    /\ parsed.state = "returned"
    /\ InputLines = <<Line.fileHeaderDiff, Line.hunkHeader12, Line.fileHeaderOld, Line.index>>
    /\ parsed.lines = << [content |-> Line.fileHeaderOld, oldLineNumber |-> 1],
                         [content |-> Line.index, oldLineNumber |-> 2, newLineNumber |-> 1] >>

NoHunkHeader == \A j \in 1..Len(InputLines) : ~IsHunkLine(InputLines[j])

C27_ParserAndStripperAgree ==
    LET LinesOfText(text) == IF text = <<>> THEN <<>> ELSE TextLines(text)
    IN  /\ parsed.state = "returned" =>
              Contents(parsed.lines) = LinesOfText(stripDiffHeaders(diff))
        /\ stripped.state = "returned" =>
              LinesOfText(stripped.text) = Contents(parseDiffWithLineNumbers(diff))

-----------------------------------------------------------------------------
(* Properties of the renderers (checked under SpecRender)                  *)

\* the pieces of a text between its line feeds, by the positions of the line feeds
LinesOf(t) ==
    LET breaks == {0} \cup {i \in 1..Len(t) : t[i] = LF} \cup {Len(t) + 1}
        nth == [k \in 1..Cardinality(breaks) |->
                   CHOOSE b \in breaks : Cardinality({c \in breaks : c <= b}) = k]
    IN  [k \in 1..(Cardinality(breaks) - 1) |-> SubSeq(t, nth[k] + 1, nth[k + 1] - 1)]

OutputLines == LinesOf(rendered.text)

\* the keys of the data's diffs object as a renderer enumerates them
RenderKeys == ObjectKeys(data.keys)

\* positions of the lines that are equal to the given line
LinesEqual(lines, line) == {i \in 1..Len(lines) : lines[i] = line}

\* positions of the lines that start with the given prefix
LinesStarting(lines, prefix) == {i \in 1..Len(lines) : StartsWith(lines[i], prefix)}

\* C17: the Markdown document of generateMarkdown has the "## Excluded Files"
\* section iff excludedFiles is not empty, the section lists every excluded path
\* as one bullet, in order, right before "## File Changes"; and the document has
\* exactly one "### " subsection per key of diffs, in key order, and none for a
\* path that is only in excludedFiles.
C17_MarkdownSections ==
    rendered.by = "generateMarkdown" =>
        LET out == OutputLines
            keys == RenderKeys
            n == Len(data.excludedFiles)
            sections == LinesEqual(out, <<"#", "#", " ", "E", "x", "c", "l", "u", "d", "e", "d",
                                          " ", "F", "i", "l", "e", "s">>)
            subsections == LinesStarting(out, <<"#", "#", "#", " ">>)
        IN  /\ sections # {} <=> n > 0
            /\ Cardinality(sections) <= 1
            /\ \A e \in sections :
                  /\ \A k \in 1..n :
                        out[e + 3 + k] =
                            <<"-", " ", GraveAccent>> \o data.excludedFiles[k] \o <<GraveAccent>>
                  /\ out[e + 4 + n] = <<>>
                  /\ out[e + 5 + n] = Md.fileChanges
            /\ Cardinality(subsections) = Len(keys)
            /\ \A k \in 1..Len(keys) :
                  out[PositionAt(subsections, k)] =
                      <<"#", "#", "#", " ", GraveAccent>> \o keys[k] \o <<GraveAccent>>
            /\ \A k \in 1..n :
                  (\A i \in 1..Len(keys) : keys[i] # data.excludedFiles[k]) =>
                      LinesEqual(out, <<"#", "#", "#", " ", GraveAccent>> \o data.excludedFiles[k]
                                      \o <<GraveAccent>>) = {}

\* two files, enumerated with the array-index key first, and two excluded paths
C17_Witness ==
    /\ rendered.by = "generateMarkdown"
    /\ data.keys = << <<"b">>, <<"2">> >>
    /\ data.excludedFiles = <<Sample.plainName, Sample.specialName>>
    /\ Cardinality(LinesStarting(OutputLines, <<"#", "#", "#", " ">>)) = 2
    /\ Cardinality(LinesStarting(OutputLines, <<"-", " ", GraveAccent>>)) = 2

\* C18 (as claimed): in the Markdown of generateMarkdown and of the browser
\* export alike, a file that is not the unchanged marker gets a code block
\* whose opening fence is exactly three backticks and "diff", whatever the
\* file's extension, holding every DiffLine content verbatim in order up to
\* the closing fence; an unchanged file gets "*No changes*" and no fence.
C18_FenceIsAlwaysDiff ==
    rendered.by \in {"generateMarkdown", "export"} =>
        LET out == OutputLines
            keys == RenderKeys
            subsections == LinesStarting(out, <<"#", "#", "#", " ">>)
        IN  \A k \in 1..Len(keys) :
                LET s == PositionAt(subsections, k)
                    diffLines == data.diffs[keys[k]]
                    end == IF k < Len(keys) THEN PositionAt(subsections, k + 1) - 1
                           ELSE Len(out)
                IN  IF RenderedAsUnchanged(diffLines)
                    THEN /\ out[s + 2] = <<"*", "N", "o", " ", "c", "h", "a", "n", "g", "e", "s", "*">>
                         /\ \A i \in s..end : ~StartsWith(out[i], <<GraveAccent, GraveAccent, GraveAccent>>)
                    ELSE /\ out[s + 2] = <<GraveAccent, GraveAccent, GraveAccent, "d", "i", "f", "f">>
                         /\ \A i \in 1..Len(diffLines) : out[s + 2 + i] = diffLines[i].content
                         /\ out[s + 3 + Len(diffLines)] = <<GraveAccent, GraveAccent, GraveAccent>>

\* the number of output lines the claim gives the k-th file: two header lines,
\* "(no changes)" or one line per DiffLine, and one empty line
BlockLength(k) ==
    LET diffLines == data.diffs[RenderKeys[k]]
    IN  3 + (IF RenderedAsUnchanged(diffLines) THEN 1 ELSE Len(diffLines))

\* the number of output lines of the first k files
RECURSIVE LinesBefore(_)
LinesBefore(k) == IF k = 0 THEN 0 ELSE LinesBefore(k - 1) + BlockLength(k)

\* C19: the text of formatStdoutDiff has, for each key p of diffs in key order,
\* the lines "--- a/p" and "+++ b/p", then "(no changes)" when the sequence is
\* the unchanged marker or else every DiffLine content verbatim, then one empty
\* line; after the last file comes a comment block that lists the excluded
\* paths in order iff excludedFiles is not empty, and nothing else.
C19_StdoutBlocks ==
    rendered.by = "formatStdoutDiff" =>
        LET out == OutputLines
            keys == RenderKeys
            n == Len(data.excludedFiles)
            total == LinesBefore(Len(keys))
            length == IF n > 0 THEN total + 2 + n ELSE total
        IN  /\ IF length > 0 THEN Len(out) = length ELSE rendered.text = <<>>
            /\ \A k \in 1..Len(keys) :
                  LET s == LinesBefore(k - 1)
                      diffLines == data.diffs[keys[k]]
                  IN  /\ out[s + 1] = <<"-", "-", "-", " ", "a", "/">> \o keys[k]
                      /\ out[s + 2] = <<"+", "+", "+", " ", "b", "/">> \o keys[k]
                      /\ IF RenderedAsUnchanged(diffLines)
                         THEN out[s + 3] = <<"(", "n", "o", " ", "c", "h", "a", "n", "g", "e", "s", ")">>
                         ELSE \A i \in 1..Len(diffLines) : out[s + 2 + i] = diffLines[i].content
                      /\ out[s + BlockLength(k)] = <<>>
            /\ n > 0 =>
                  /\ out[total + 1] = <<>>
                  /\ out[total + 2] = Stdout.excludedTitle
                  /\ \A i \in 1..n :
                        out[total + 2 + i] = <<"#", " ", " ", " ">> \o data.excludedFiles[i]

\* an unchanged file and a changed one, enumerated with the array-index key
\* first, and two excluded paths
C19_Witness ==
    /\ rendered.by = "formatStdoutDiff"
    /\ data.keys = << <<"b">>, <<"2">> >>
    /\ RenderedAsUnchanged(data.diffs[<<"2">>])
    /\ Len(data.diffs[<<"b">>]) = 2
    /\ data.excludedFiles = <<Sample.specialName, Sample.plainName>>
    /\ Len(OutputLines) = 13

\* what a character must read as in HTML text: its entity for the five special
\* characters, itself otherwise
CharacterEntity(c) ==
    IF c = "&" THEN <<"&", "a", "m", "p", ";">>
    ELSE IF c = "<" THEN <<"&", "l", "t", ";">>
    ELSE IF c = ">" THEN <<"&", "g", "t", ";">>
    ELSE IF c = "\"" THEN <<"&", "q", "u", "o", "t", ";">>
    ELSE IF c = "'" THEN <<"&", "#", "0", "3", "9", ";">>
    ELSE <<c>>

\* a text with each of its characters written as CharacterEntity says
Escaped(text) == Flatten([i \in 1..Len(text) |-> CharacterEntity(text[i])])

\* the file names of the bounded data that have no highlighting language
NoLanguageNames == { <<"2">>, <<"b">> }

\* the HTML the claim expects for one DiffLine of a file without a language: the
\* gutter, then the marker and the escaped code, wrapped by the line's class
ExpectedLine(diffLine) ==
    LET line == diffLine.content
        marked == IF HasDiffMarker(line) THEN <<line[1]>> \o Escaped(Tail(line))
                  ELSE Escaped(line)
    IN  IF line[1] = "+" THEN LineNumbers(diffLine) \o Html.additionOpen \o marked \o Html.spanClose
        ELSE IF line[1] = "-" THEN LineNumbers(diffLine) \o Html.deletionOpen \o marked \o Html.spanClose
        ELSE LineNumbers(diffLine) \o marked

\* C20: in the page built by displayDiffs, for a file name with no highlighting
\* language, the HTML formatDiff returns holds every DiffLine content with the
\* characters & < > " ' written only as &amp; &lt; &gt; &quot; &#039; (every
\* other character as it is); the excluded-file names in the warning and the
\* error message the submit handler shows are escaped the same way.
C20_HtmlEscaped ==
    /\ rendered.by = "displayDiffs" =>
          LET kids == diffSummary.children
              keys == RenderKeys
              n == Len(data.excludedFiles)
              off == IF n > 0 THEN 1 ELSE 0
          IN  /\ Len(kids) = off + Len(keys)
              /\ n > 0 =>
                    kids[1].innerHTML =
                        Html.warningOpen
                        \o Flatten([k \in 1..n |->
                               <<"<", "l", "i", ">">> \o Escaped(data.excludedFiles[k])
                               \o <<"<", "/", "l", "i", ">">>])
                        \o Html.warningClose
              /\ \A k \in 1..Len(keys) :
                    LET diffLines == data.diffs[keys[k]]
                        html == LinesOf(kids[off + k].innerHTML)
                    IN  (/\ keys[k] \in NoLanguageNames
                         /\ ~RenderedAsUnchanged(diffLines)
                         /\ Len(diffLines) > 0) =>
                            /\ Len(html) = Len(diffLines)
                            /\ \A i \in 1..Len(diffLines) : html[i] = ExpectedLine(diffLines[i])
    /\ rendered.by = "submitFailed" =>
          diffSummary.innerHTML = Html.errorOpen \o Escaped(rendered.text) \o Html.divClose

\* a file without language whose lines hold the five characters, and an excluded
\* path made of them
C20_Witness ==
    /\ rendered.by = "displayDiffs"
    /\ data.keys = << <<"b">> >>
    /\ data.diffs[<<"b">>] = SpecialLines
    /\ data.excludedFiles = <<Sample.plainName, Sample.specialName>>
    /\ Len(diffSummary.children) = 2

-----------------------------------------------------------------------------
(* The POST /api/diff responses (checked under Spec)                        *)

\* C22: when the per-file loop of a POST /api/diff request fails (git diff or git
\* show rejects), the response is 500, its error field is the failure's message
\* when the failure is an Error and "Failed to get diffs" otherwise, and it has no
\* diffs and no excludedFiles field.
C22_LoopFailureIs500 ==
    \A k \in 1..Len(calls) :
        (entry = "post" /\ RejectedCall(k)) =>
            /\ outcome.kind = "response"
            /\ outcome.status = 500
            /\ DOMAIN outcome = {"kind", "status", "error"}
            /\ outcome.error = IF AnswerTo(calls[k]).isError
                               THEN AnswerTo(calls[k]).message
                               ELSE "Failed to get diffs"

C22_Witness ==
    /\ entry = "post"
    /\ outcome.kind = "response"
    /\ outcome.status = 500
    /\ outcome.error = "git error"
    /\ Len(calls) > 2
    /\ Len(excludedFiles) > 0

\* C23: a POST /api/diff body whose startCommit or endCommit is missing or empty,
\* or whose files is missing or not an array, is answered 400 with the error
\* "Missing required parameters.", and no collaborator call is issued for it.
C23_MissingParametersIs400 ==
    (/\ entry = "post"
     /\ \/ startCommit = "undefined"
        \/ startCommit = ""
        \/ endCommit = "undefined"
        \/ endCommit = ""
        \/ filesKind # "array") =>
        /\ calls = <<>>
        /\ pc \in {"start", "done"}
        /\ pc = "done" =>
              outcome = [kind |-> "response", status |-> 400,
                         error |-> "Missing required parameters."]

C23_Witness ==
    /\ entry = "post"
    /\ startCommit = "abc123"
    /\ endCommit = "def456"
    /\ filesKind = "string"
    /\ pc = "done"
    /\ outcome.status = 400

-----------------------------------------------------------------------------
(* getLanguageFromFilename on bounded file names                            *)

MaxDots == 2

\* what stands before the last piece of a name: n pieces, each closed by "."
Stem(n) == Flatten([i \in 1..n |-> <<"a", ".">>])

\* last pieces: every key of the table, keys in upper and mixed case, names of
\* extensionless files, unknown extensions, inherited property names, nothing
Pieces ==
    {languageMap[i][1] : i \in 1..Len(languageMap)}
    \cup { <<"T", "S">>, <<"J", "S">>, <<"P", "Y">>, <<"H", "t", "M", "l">>,
           <<"D", "o", "c", "k", "e", "r", "f", "i", "l", "e">>,
           <<"M", "a", "k", "e", "f", "i", "l", "e">>,
           <<"u", "n", "k", "n", "o", "w", "n">>, <<"x", "y", "z">>,
           <<"c", "o", "n", "s", "t", "r", "u", "c", "t", "o", "r">>,
           <<"_", "_", "p", "r", "o", "t", "o", "_", "_">>,
           <<"t", "o", "S", "t", "r", "i", "n", "g">>,
           <<>> }

FileNames == {Stem(n) \o piece : n \in 0..MaxDots, piece \in Pieces}

InitLookup ==
    /\ InitGenIdle
    /\ InitParseIdle
    /\ InitStripIdle
    /\ InitRenderIdle
    /\ InitShutdownIdle
    /\ InitTreeIdle
    /\ InitMainIdle
    /\ InitSubmitIdle
    /\ \E name \in FileNames :
           lookup = [state |-> "pending", filename |-> name, found |-> FALSE, name |-> <<>>]

\* language = getLanguageFromFilename(filename)
GetLanguageCall ==
    /\ lookup.state = "pending"
    /\ LET language == getLanguageFromFilename(lookup.filename)
       IN  lookup' = [state |-> "returned", filename |-> lookup.filename,
                      found |-> language.found, name |-> language.name]
    /\ UNCHANGED <<parseVars, stripVars, renderVars, genVars, shutdownVars, treeVars, mainVars,
                   submitVars>>

NextLookup == GetLanguageCall

SpecLookup == InitLookup /\ [][NextLookup]_vars

-----------------------------------------------------------------------------
(* The server process and its shutdown on SIGINT / SIGTERM                  *)

MaxSignals == 2

MaxConnections == 3

\* the 5000 ms of the fallback timer, in clock ticks
TimeoutTicks == 2

Signals == {"SIGINT", "SIGTERM"}

\* a timer call that cancels the timers already pending
SetTimeoutClearingPending(delay) == <<delay>>

\* setTimeout(callback, delay): one more pending timer
SetTimeout(delay) == Append(timers, delay)

\* process.exit(code)
Exit(code) == [proc EXCEPT !.alive = FALSE, !.exitCode = code]

\* app.listen(port) returned and the signal handlers are registered
InitShutdown ==
    /\ InitGenIdle
    /\ InitParseIdle
    /\ InitStripIdle
    /\ InitRenderIdle
    /\ InitLookupIdle
    /\ InitTreeIdle
    /\ InitMainIdle
    /\ InitSubmitIdle
    /\ proc = [alive |-> TRUE, exitCode |-> 0, received |-> <<>>]
    /\ server = [listening |-> TRUE, connections |-> 0, closeListeners |-> 0]
    /\ timers = <<>>
    /\ elapsed = 0

\* a client connects to the listening server
Connect ==
    /\ proc.alive
    /\ server.listening
    /\ server.connections < MaxConnections
    /\ server' = [server EXCEPT !.connections = @ + 1]
    /\ UNCHANGED <<proc, timers, elapsed>>
    /\ UNCHANGED <<parseVars, stripVars, renderVars, genVars, lookupVars, treeVars, mainVars,
                   submitVars>>

\* a connection ends; when it is the last one of a server that stopped
\* listening, 'close' is emitted and the close listeners run: process.exit(0)
Disconnect ==
    /\ proc.alive
    /\ server.connections > 0
    /\ server' = [server EXCEPT !.connections = @ - 1]
    /\ proc' = IF ~server.listening /\ server.connections = 1 /\ server.closeListeners > 0
               THEN Exit(0)
               ELSE proc
    /\ UNCHANGED <<timers, elapsed>>
    /\ UNCHANGED <<parseVars, stripVars, renderVars, genVars, lookupVars, treeVars, mainVars,
                   submitVars>>

\* process.on(signal, () => shutdown(signal)): server.close(callback) stops
\* listening and registers the callback, setTimeout arms the fallback; with no
\* connection open 'close' is emitted right after the handler: process.exit(0)
Shutdown ==
    /\ proc.alive
    /\ Len(proc.received) < MaxSignals
    /\ \E signal \in Signals :
          LET got == [proc EXCEPT !.received = Append(@, signal)]
          IN  proc' = IF server.connections = 0
                      THEN [got EXCEPT !.alive = FALSE, !.exitCode = 0]
                      ELSE got
    /\ server' = [server EXCEPT !.listening = FALSE, !.closeListeners = @ + 1]
    /\ timers' = SetTimeout(TimeoutTicks)
    /\ UNCHANGED elapsed
    /\ UNCHANGED <<parseVars, stripVars, renderVars, genVars, lookupVars, treeVars, mainVars,
                   submitVars>>

\* a pending timer has run its time: its callback calls process.exit(1)
TimerFires ==
    /\ proc.alive
    /\ \E i \in 1..Len(timers) : timers[i] = 0
    /\ proc' = Exit(1)
    /\ UNCHANGED <<server, timers, elapsed>>
    /\ UNCHANGED <<parseVars, stripVars, renderVars, genVars, lookupVars, treeVars, mainVars,
                   submitVars>>

\* time passes while timers are pending and none of them is due
Tick ==
    /\ proc.alive
    /\ timers # <<>>
    /\ \A i \in 1..Len(timers) : timers[i] > 0
    /\ timers' = [i \in 1..Len(timers) |-> timers[i] - 1]
    /\ elapsed' = elapsed + 1
    /\ UNCHANGED <<proc, server>>
    /\ UNCHANGED <<parseVars, stripVars, renderVars, genVars, lookupVars, treeVars, mainVars,
                   submitVars>>

NextShutdown ==
    \/ Connect
    \/ Disconnect
    \/ Shutdown
    \/ TimerFires
    \/ Tick

\* time does not stop and the event loop runs a timer that is due: the handlers
\* of the process are short and nothing else blocks the loop
SpecShutdown ==
    InitShutdown /\ [][NextShutdown]_vars /\ WF_vars(Tick) /\ WF_vars(TimerFires)

-----------------------------------------------------------------------------
(* The file tree of the page: checkboxes, folders and the search box       *)

MaxTreeFiles == 3

\* the tracked files a repository may have, in the sorted order of git ls-files;
\* a path is the sequence of its "/"-separated parts
ListedFiles == << <<"a">>, <<"d", "b">>, <<"d", "e", "c">>, <<"d", "e", "g">> >>

FileSets ==
    {fs \in SUBSET {ListedFiles[i] : i \in 1..Len(ListedFiles)} :
        Cardinality(fs) \in 1..MaxTreeFiles}

\* element p lies inside the <li> of folder d
IsInside(d, p) == Len(d) < Len(p) /\ SubSeq(p, 1, Len(d)) = d

\* buildFileTree: the folders of a file list
FolderPaths(fs) == UNION {{SubSeq(f, 1, k) : k \in 1..(Len(f) - 1)} : f \in fs}

\* createTreeHtml: the <li> elements of a sorted file list in document order,
\* each named by its path (a folder comes right before its first file)
RECURSIVE ListItems(_, _)
ListItems(listed, seen) ==
    IF listed = <<>> THEN <<>>
    ELSE LET file == Head(listed)
             prefixes == [i \in 1..Len(file) |-> SubSeq(file, 1, i)]
             IsNew(p) == p \notin seen
         IN  SelectSeq(prefixes, IsNew)
             \o ListItems(Tail(listed), seen \cup {prefixes[i] : i \in 1..Len(file)})

\* the file list of a tree in document order
FilesInOrder(t) ==
    LET IsListed(f) == f \in t.files
    IN  SelectSeq(ListedFiles, IsListed)

\* the three states of a checkbox that can be indeterminate
Box == [unchecked |-> [checked |-> FALSE, indeterminate |-> FALSE],
        checked |-> [checked |-> TRUE, indeterminate |-> FALSE],
        indeterminate |-> [checked |-> FALSE, indeterminate |-> TRUE]]

\* updateFolderCheckboxStates: the body of its forEach for one folder checkbox
FolderCheckboxState(t, boxes, d) ==
    LET fileCheckboxes == {f \in t.files : IsInside(d, f)}
        subfolderCheckboxes == {e \in DOMAIN boxes : IsInside(d, e)}
        allSubfoldersChecked ==
            \A e \in subfolderCheckboxes : boxes[e].checked /\ ~boxes[e].indeterminate
        someSubfoldersChecked ==
            \E e \in subfolderCheckboxes : boxes[e].checked \/ boxes[e].indeterminate
        checkedCount == Cardinality({f \in fileCheckboxes : t.checked[f]})
    IN  IF fileCheckboxes = {}
        THEN IF subfolderCheckboxes = {} THEN Box.unchecked
             ELSE IF allSubfoldersChecked THEN Box.checked
             ELSE IF someSubfoldersChecked THEN Box.indeterminate
             ELSE Box.unchecked
        ELSE IF checkedCount = 0 /\ ~someSubfoldersChecked THEN Box.unchecked
        ELSE IF checkedCount = Cardinality(fileCheckboxes) /\ ~someSubfoldersChecked
        THEN Box.checked
        ELSE Box.indeterminate

\* updateFolderCheckboxStates: the folder checkboxes sorted deepest first, one
\* depth after the other (folders of one depth do not contain each other)
RECURSIVE UpdateFromDepth(_, _, _)
UpdateFromDepth(t, boxes, depth) ==
    IF depth = 0 THEN boxes
    ELSE UpdateFromDepth(t,
                         [d \in DOMAIN boxes |->
                             IF Len(d) = depth THEN FolderCheckboxState(t, boxes, d)
                             ELSE boxes[d]],
                         depth - 1)

updateFolderCheckboxStates(t) ==
    LET depths == {Len(d) : d \in DOMAIN t.folderCheckboxes} \cup {0}
        deepest == CHOOSE m \in depths : \A n \in depths : n <= m
    IN  [t EXCEPT !.folderCheckboxes = UpdateFromDepth(t, @, deepest)]

\* getVisibleFileCheckboxes: the file checkboxes whose own <li> is not hidden
getVisibleFileCheckboxes(t) == {f \in t.files : t.display[f] # "none"}

updateSelectAllState(t) ==
    LET visibleCheckboxes == getVisibleFileCheckboxes(t)
        checkedCount == Cardinality({f \in visibleCheckboxes : t.checked[f]})
    IN  IF visibleCheckboxes = {} THEN Box.unchecked
        ELSE IF checkedCount = 0 THEN Box.unchecked
        ELSE IF checkedCount = Cardinality(visibleCheckboxes) THEN Box.checked
        ELSE Box.indeterminate

\* updateSelectedFilesList: getSelectedFiles() in document order
updateSelectedFilesList(t) ==
    LET IsChecked(f) == t.checked[f]
    IN  SelectSeq(FilesInOrder(t), IsChecked)

\* an element the user can reach: neither it nor a list around it is hidden
Visible(t, p) ==
    /\ t.display[p] # "none"
    /\ \A d \in DOMAIN t.collapsed :
          IsInside(d, p) => t.display[d] # "none" /\ t.nestedList[d] # "none"

\* buildFileTree(files, fileTree): nothing checked, every folder expanded
BuiltTree(fs) ==
    [files |-> fs,
     checked |-> [f \in fs |-> FALSE],
     folderCheckboxes |-> [d \in FolderPaths(fs) |-> Box.unchecked],
     display |-> [p \in fs \cup FolderPaths(fs) |-> ""],
     collapsed |-> [d \in FolderPaths(fs) |-> FALSE],
     nestedList |-> [d \in FolderPaths(fs) |-> ""]]

\* the page after /api/files was loaded and the tree was built
InitTree ==
    /\ InitGenIdle
    /\ InitParseIdle
    /\ InitStripIdle
    /\ InitRenderIdle
    /\ InitLookupIdle
    /\ InitShutdownIdle
    /\ InitMainIdle
    /\ InitSubmitIdle
    /\ \E fs \in FileSets : fileTree = BuiltTree(fs)
    /\ selectAllCheckbox = Box.unchecked
    /\ selectedFilesList = <<>>
    /\ search = [value |-> <<>>, isSearchActive |-> FALSE, savedCollapsedState |-> <<>>]
    /\ beforeSearch = [collapsed |-> <<>>, toggled |-> FALSE]

\* change on a file checkbox: the browser flipped it, then the listener runs
FileCheckboxChange ==
    /\ \E f \in fileTree.files :
          /\ Visible(fileTree, f)
          /\ LET t == updateFolderCheckboxStates([fileTree EXCEPT !.checked[f] = ~@])
             IN  /\ fileTree' = t
                 /\ selectAllCheckbox' = updateSelectAllState(t)
                 /\ selectedFilesList' = updateSelectedFilesList(t)
    /\ UNCHANGED <<search, beforeSearch>>
    /\ UNCHANGED <<parseVars, stripVars, renderVars, genVars, lookupVars, shutdownVars, mainVars,
                   submitVars>>

\* change on a folder checkbox: the browser flipped it and cleared its
\* indeterminate state, then handleFolderCheckboxChange runs
FolderCheckboxChange ==
    /\ \E d \in DOMAIN fileTree.folderCheckboxes :
          /\ Visible(fileTree, d)
          /\ LET isChecked == ~fileTree.folderCheckboxes[d].checked
                 clicked == [fileTree EXCEPT
                                !.folderCheckboxes[d] =
                                    [checked |-> isChecked, indeterminate |-> FALSE],
                                !.checked = [f \in DOMAIN @ |->
                                                IF IsInside(d, f) THEN isChecked ELSE @[f]]]
                 t == updateFolderCheckboxStates(clicked)
             IN  /\ fileTree' = t
                 /\ selectAllCheckbox' = updateSelectAllState(t)
                 /\ selectedFilesList' = updateSelectedFilesList(t)
    /\ UNCHANGED <<search, beforeSearch>>
    /\ UNCHANGED <<parseVars, stripVars, renderVars, genVars, lookupVars, shutdownVars, mainVars,
                   submitVars>>

\* change on #select-all: the browser flipped it and cleared its indeterminate
\* state, then the listener sets every visible file checkbox
SelectAllChange ==
    /\ LET isChecked == ~selectAllCheckbox.checked
           checkboxes == getVisibleFileCheckboxes(fileTree)
           t == [fileTree EXCEPT
                    !.checked = [f \in DOMAIN @ |->
                                    IF f \in checkboxes THEN isChecked ELSE @[f]]]
       IN  /\ selectAllCheckbox' = [checked |-> isChecked, indeterminate |-> FALSE]
           /\ fileTree' = t
           /\ selectedFilesList' = updateSelectedFilesList(t)
    /\ UNCHANGED <<search, beforeSearch>>
    /\ UNCHANGED <<parseVars, stripVars, renderVars, genVars, lookupVars, shutdownVars, mainVars,
                   submitVars>>

\* click on a folder's toggle icon: handleFolderToggle
FolderToggle ==
    /\ \E d \in DOMAIN fileTree.collapsed :
          /\ Visible(fileTree, d)
          /\ fileTree' = [fileTree EXCEPT
                             !.collapsed[d] = ~@,
                             !.nestedList[d] = IF fileTree.collapsed[d] THEN "" ELSE "none"]
    /\ beforeSearch' = IF search.value # <<>>
                       THEN [beforeSearch EXCEPT !.toggled = TRUE]
                       ELSE beforeSearch
    /\ UNCHANGED <<selectAllCheckbox, selectedFilesList, search>>
    /\ UNCHANGED <<parseVars, stripVars, renderVars, genVars, lookupVars, shutdownVars, mainVars,
                   submitVars>>

\* what the user may type into #file-search
SearchValues == { <<>>, <<"B">>, <<"e", "/">>, <<"z">> }

\* the value of a file checkbox: the parts of its path joined by "/" (each part
\* of a listed path is one character)
PathText(p) == [i \in 1..(2 * Len(p) - 1) |-> IF i % 2 = 1 THEN p[(i + 1) \div 2] ELSE "/"]

\* String.prototype.includes
Includes(text, term) ==
    \E i \in 0..(Len(text) - Len(term)) : SubSeq(text, i + 1, i + Len(term)) = term

\* filterFileTree with an empty term: every <li> is shown and the folders get
\* back the saved state; a folder without saved state keeps its own
ClearSearch(t, saved) ==
    [t EXCEPT
        !.display = [p \in DOMAIN @ |-> ""],
        !.collapsed = [d \in DOMAIN @ |-> IF d \in DOMAIN saved THEN saved[d] ELSE @[d]],
        !.nestedList = [d \in DOMAIN @ |->
                           IF d \in DOMAIN saved
                           THEN IF saved[d] THEN "none" ELSE ""
                           ELSE IF t.collapsed[d] THEN "none" ELSE @[d]]]

\* the state is written over at every search term
SaveAtEveryTerm(s) == TRUE

\* if (!isSearchActive): the collapsed states are saved when a search begins
SaveNeeded(s) == ~s.isSearchActive

\* filterFileTree: the body of the last forEach for one <li>; querySelector
\* finds the first file checkbox inside the <li>, its own or a nested one
FilterItem(t, item, searchTerm) ==
    LET inside == {f \in t.files : f = item \/ IsInside(item, f)}
        order == FilesInOrder(t)
        first == CHOOSE i \in 1..Len(order) :
                     /\ order[i] \in inside
                     /\ \A j \in 1..(i - 1) : order[j] \notin inside
    IN  IF inside = {} THEN [t EXCEPT !.display[item] = "none"]
        ELSE IF Includes(toLowerCase(PathText(order[first])), searchTerm)
        THEN [t EXCEPT
                 !.display = [p \in DOMAIN @ |->
                                 IF p = item \/ IsInside(p, item) THEN "" ELSE @[p]],
                 !.collapsed = [d \in DOMAIN @ |-> IF IsInside(d, item) THEN FALSE ELSE @[d]],
                 !.nestedList = [d \in DOMAIN @ |-> IF IsInside(d, item) THEN "" ELSE @[d]]]
        ELSE [t EXCEPT !.display[item] = "none"]

RECURSIVE FilterLoop(_, _, _)
FilterLoop(t, items, searchTerm) ==
    IF items = <<>> THEN t
    ELSE FilterLoop(FilterItem(t, Head(items), searchTerm), Tail(items), searchTerm)

\* input on #file-search: filterFileTree(value.toLowerCase()), updateSelectAllState()
SearchInput ==
    /\ \E value \in SearchValues :
          /\ value # search.value
          /\ LET searchTerm == toLowerCase(value)
                 t == IF searchTerm = <<>>
                      THEN ClearSearch(fileTree, search.savedCollapsedState)
                      ELSE FilterLoop(fileTree, ListItems(FilesInOrder(fileTree), {}),
                                      searchTerm)
             IN  /\ fileTree' = t
                 /\ selectAllCheckbox' = updateSelectAllState(t)
                 /\ search' =
                        IF searchTerm = <<>>
                        THEN [value |-> value, isSearchActive |-> FALSE,
                              savedCollapsedState |-> <<>>]
                        ELSE [value |-> value, isSearchActive |-> TRUE,
                              savedCollapsedState |->
                                  IF SaveNeeded(search) THEN fileTree.collapsed
                                  ELSE search.savedCollapsedState]
    /\ beforeSearch' = IF search.value = <<>>
                       THEN [collapsed |-> fileTree.collapsed, toggled |-> FALSE]
                       ELSE beforeSearch
    /\ UNCHANGED selectedFilesList
    /\ UNCHANGED <<parseVars, stripVars, renderVars, genVars, lookupVars, shutdownVars, mainVars,
                   submitVars>>

NextTree ==
    \/ FileCheckboxChange
    \/ FolderCheckboxChange
    \/ SelectAllChange
    \/ FolderToggle
    \/ SearchInput

SpecTree == InitTree /\ [][NextTree]_vars

\* C29: a returned generateDiffs has every requested path either as a key of
\* diffs or in excludedFiles and never in both, as many keys plus excluded
\* entries as requested entries (repeated paths included), and for an empty
\* request the empty result without any git call.
C29_ResultPartition ==
    (pc = "done" /\ outcome.kind = "returned") =>
        LET keys == outcome.keys
            excluded == outcome.excludedFiles
            isKey == [p \in Paths |-> \E k \in 1..Len(keys) : keys[k] = p]
            isExcluded == [p \in Paths |-> \E k \in 1..Len(excluded) : excluded[k] = p]
        IN  /\ \A i \in 1..Len(files) : isKey[files[i]] # isExcluded[files[i]]
            /\ Len(keys) + Len(excluded) = Len(files)
            /\ files = <<>> => (keys = <<>> /\ excluded = <<>> /\ calls = <<>>)

-----------------------------------------------------------------------------
(* The command line: main, from parseArgs to the output                     *)

MaxMainFiles == 1

\* Number.parseInt(text, 10): blanks in front and one sign are skipped, then the
\* longest run of decimal digits is read; NaN when there is no digit
NumberParseInt(text) ==
    LET blanks == {i \in 1..(Len(text) + 1) : \A j \in 1..(i - 1) : text[j] = " "}
        start == CHOOSE i \in blanks : \A j \in blanks : j <= i
        signed == start <= Len(text) /\ text[start] \in {"+", "-"}
        from == IF signed THEN start + 1 ELSE start
        end == DigitsEnd(text, from)
        magnitude == ParseInt(SubSeq(text, from, end - 1))
    IN  IF end = from THEN [nan |-> TRUE, value |-> 0]
        ELSE [nan |-> FALSE,
              value |-> IF signed /\ text[start] = "-" THEN -magnitude ELSE magnitude]

\* values given to --context; without the option parseArgs keeps its default
ContextArgs ==
    {[given |-> FALSE, text |-> <<>>]}
    \cup {[given |-> TRUE, text |-> t] :
             t \in { <<"0">>, <<"1">>, <<"3">>, <<"1", "0">>,
                     <<"9", "9", "9", "9", "9", "9">>,
                     <<"1", "0", "0", "0", "0", "0", "0">>,
                     <<"-", "1">>, <<"a", "b", "c">>, <<"5", "x">>, <<" ", "7">>,
                     <<"2", ".", "5">>, <<>> }}

\* the request lists of the command line: validateOptions wants one file at least
MainFileLists == UNION {[1..n -> Paths] : n \in 1..MaxMainFiles}

\* main(args) was called with --start, --end, --files and maybe --context, --output
InitMain ==
    /\ InitLookupIdle
    /\ InitShutdownIdle
    /\ InitTreeIdle
    /\ InitSubmitIdle
    /\ InitParseIdle
    /\ InitStripIdle
    /\ argv \in [context : ContextArgs, output : {"markdown", "stdout"}]
    /\ entry = "generateDiffs"
    /\ startCommit = "abc123"
    /\ endCommit = "def456"
    /\ filesKind = "array"
    /\ files \in MainFileLists
    /\ contextLines = Undefined
    /\ validContextLines = Undefined
    /\ idx = 1
    /\ pc = "main"
    /\ diffKeys = <<>>
    /\ diffs = <<>>
    /\ excludedFiles = <<>>
    /\ calls = <<>>
    /\ repo = [p \in Paths |->
                 [end |-> Unknown, diff |-> NotAsked, start |-> Unknown, show |-> NotAsked]]
    /\ outcome = NoOutcome
    /\ data = NoData
    /\ rendered = [by |-> "pending", text |-> <<>>]
    /\ diffSummary = [innerHTML |-> <<>>, children |-> <<>>]

\* main up to the call of generateDiffs: parseArgs (the --context case and the
\* default of 3), validateOptions, git.checkIsRepo(); an error ends in the catch
\* block with process.exit(1)
MainParseArgs ==
    /\ pc = "main"
    /\ \E isRepo \in BOOLEAN :
          LET n == NumberParseInt(argv.context.text)
              invalid == argv.context.given /\ (n.nan \/ n.value < 0)
          IN  IF invalid \/ ~isRepo
              THEN /\ pc' = "done"
                   /\ outcome' = [kind |-> "exit", code |-> 1]
                   /\ UNCHANGED contextLines
              ELSE /\ pc' = "start"
                   /\ contextLines' = IF argv.context.given THEN Num(n.value, 0)
                                      ELSE Num(DefaultContextLines, 0)
                   /\ UNCHANGED outcome
    /\ UNCHANGED <<pageVars, parseVars, stripVars, renderVars, request, validContextLines, idx,
                   diffKeys, diffs, excludedFiles, calls, repo>>

\* main after generateDiffs: the output is formatted (and printed or written); a
\* rejection of generateDiffs ends in the catch block with process.exit(1)
MainOutput ==
    /\ pc = "done"
    /\ rendered.by = "pending"
    /\ outcome.kind \in {"returned", "thrown"}
    /\ IF outcome.kind = "thrown"
       THEN /\ rendered' = [by |-> "main", text |-> <<>>]
            /\ outcome' = [kind |-> "exit", code |-> 1]
       ELSE /\ LET d == [kind |-> "data", repoPath |-> Sample.repoPath,
                         startCommit |-> Sample.startCommit,
                         endCommit |-> Sample.endCommit,
                         contextLines |-> contextLines, keys |-> outcome.keys,
                         diffs |-> outcome.diffs, excludedFiles |-> outcome.excludedFiles]
               IN  rendered' = [by |-> "main",
                                text |-> IF argv.output = "markdown"
                                         THEN generateMarkdown(d)
                                         ELSE formatStdoutDiff(d)]
            /\ UNCHANGED outcome
    /\ UNCHANGED <<pageVars, parseVars, stripVars, data, diffSummary, request, contextLines,
                   validContextLines, idx, pc, diffKeys, diffs, excludedFiles, calls, repo>>

NextMain ==
    \/ MainParseArgs
    \/ GenerateDiffsCall
    \/ CatFileEnd
    \/ GitDiff
    \/ CatFileStart
    \/ GitShow
    \/ Return
    \/ MainOutput

SpecMain == InitMain /\ [][NextMain]_vars

-----------------------------------------------------------------------------
(* Claims checked under SpecLookup                                          *)

\* C21: a file name without "." always gets null; a name with "." gets the
\* language the table maps the lower-cased text after the last "." to, and null
\* when the table has no such key.
C21_LanguageByExtension ==
    lookup.state = "returned" =>
        LET name == lookup.filename
            dots == {i \in 1..Len(name) : name[i] = "."}
        IN  IF dots = {} THEN ~lookup.found
            ELSE LET last == CHOOSE i \in dots : \A j \in dots : j <= i
                     text == SubSeq(name, last + 1, Len(name))
                     extension == [i \in 1..Len(text) |-> ToLowerChar(text[i])]
                     keys == {i \in 1..Len(languageMap) : languageMap[i][1] = extension}
                 IN  IF keys = {} THEN ~lookup.found
                     ELSE /\ lookup.found
                          /\ lookup.name = languageMap[CHOOSE i \in keys : TRUE][2]

-----------------------------------------------------------------------------
(* Claims checked under SpecShutdown                                        *)

\* C24: once the server process has received SIGINT or SIGTERM it eventually
\* exits; it exits with code 0 exactly when the server's close completes (no
\* connection is left) before a fallback timer fires, and with code 1 exactly when
\* a fallback timer fires first; it is never alive later than the fallback delay
\* after the first signal, also when a second signal arrives during shutdown.
C24_ShutdownExits ==
    /\ (proc.received # <<>>) ~> ~proc.alive
    /\ [](proc.alive /\ proc.received # <<>> => elapsed <= TimeoutTicks)
    /\ [][(proc.alive /\ ~proc'.alive) =>
             /\ proc'.received # <<>>
             /\ proc'.exitCode \in {0, 1}
             /\ proc'.exitCode = 0 <=> (~server'.listening /\ server'.connections = 0)
             /\ proc'.exitCode = 1 <=>
                    /\ server'.connections > 0
                    /\ \E i \in 1..Len(timers) : timers[i] = 0]_vars

C24_Witness ==
    /\ ~proc.alive
    /\ proc.exitCode = 1
    /\ Len(proc.received) = 2
    /\ elapsed = TimeoutTicks
    /\ Len(timers) = 2
    /\ timers[2] > 0

-----------------------------------------------------------------------------
(* Claims checked under SpecTree                                            *)

\* C25: after any sequence of file-checkbox, folder-checkbox and select-all
\* changes, every folder checkbox is checked and not indeterminate iff all files
\* beneath the folder are checked, unchecked and not indeterminate iff none is,
\* and indeterminate otherwise.
C25_FolderCheckboxesFollowFiles ==
    \A d \in DOMAIN fileTree.folderCheckboxes :
        LET beneath == {f \in fileTree.files : Len(d) < Len(f) /\ SubSeq(f, 1, Len(d)) = d}
            on == {f \in beneath : fileTree.checked[f]}
            box == fileTree.folderCheckboxes[d]
        IN  /\ (box.checked /\ ~box.indeterminate) <=> on = beneath
            /\ (~box.checked /\ ~box.indeterminate) <=> on = {}
            /\ box.indeterminate <=> (on # {} /\ on # beneath)

\* C26: when one or more non-empty search terms were entered and the search is
\* then cleared, every folder has the collapsed or expanded state it had before
\* the first term, every list item is shown again, and the nested list of a
\* folder is hidden exactly when the folder is collapsed.
C26_ClearingSearchRestoresFolders ==
    [][(search.value # <<>> /\ search'.value = <<>> /\ ~beforeSearch.toggled) =>
          /\ fileTree'.collapsed = beforeSearch.collapsed
          /\ \A p \in DOMAIN fileTree'.display : fileTree'.display[p] = ""
          /\ \A d \in DOMAIN fileTree'.collapsed :
                fileTree'.nestedList[d] = "none" <=> fileTree'.collapsed[d]]_vars

\* the search was cleared after two terms, the first of which had expanded a
\* collapsed folder, and the folder is collapsed again
C26_Witness ==
    /\ search.value = <<>>
    /\ ~search.isSearchActive
    /\ ~beforeSearch.toggled
    /\ \E d \in DOMAIN beforeSearch.collapsed :
          /\ beforeSearch.collapsed[d]
          /\ fileTree.collapsed[d]
          /\ fileTree.nestedList[d] = "none"

-----------------------------------------------------------------------------
(* Claims checked under SpecMain                                            *)

\* C28: in a Markdown document written by main the number after "Context
\* Lines:" is the width every git diff call of that run was given, for every
\* --context value parseArgs accepts.
C28_ReportedWidthIsUsedWidth ==
    (rendered.by = "main" /\ argv.output = "markdown" /\ outcome.kind = "returned") =>
        LET out == LinesOf(rendered.text)
        IN  \A k \in 1..Len(calls) :
                calls[k].op = "diff" =>
                    \E i \in 1..Len(out) :
                        out[i] = Md.contextLines \o NumToString(calls[k].U)

-----------------------------------------------------------------------------
(* The browser's submit handler with requests in flight                     *)

MaxSubmits == 2

\* "Failed to fetch diff"
FailedToFetchDiff ==
    <<"F", "a", "i", "l", "e", "d", " ", "t", "o", " ", "f", "e", "t", "c", "h", " ", "d",
      "i", "f", "f">>

\* what the form holds when it is submitted: the two commits after trim(), the
\* checked files and the value of #context-lines
FormValues ==
    { [startCommit |-> "", endCommit |-> "def456", selectedFiles |-> << <<"b">> >>,
       contextLinesSelect |-> <<"3">>],
      [startCommit |-> "abc123", endCommit |-> "def456", selectedFiles |-> <<>>,
       contextLinesSelect |-> <<"3">>],
      [startCommit |-> "abc123", endCommit |-> "def456", selectedFiles |-> << <<"b">> >>,
       contextLinesSelect |-> <<"3">>],
      [startCommit |-> "def456", endCommit |-> "abc123",
       selectedFiles |-> << <<"a", ".", "j", "s">> >>,
       contextLinesSelect |-> <<"1", "0">>] }

\* the invocations whose request is on its way or whose response is being read
Pending(h) == {i \in 1..Len(h) : h[i].pc \in {"fetch", "json", "errorJson"}}

\* the bodies the server may answer a request with: each requested path is kept
\* with its diff lines or excluded
ResponseBodies(req) ==
    LET requested == {req.selectedFiles[i] : i \in 1..Len(req.selectedFiles)}
    IN  {[keys |-> SelectIdx(req.selectedFiles, [f \in requested |-> f \notin ex]),
          diffs |-> [f \in requested \ ex |-> lines],
          excludedFiles |-> SelectIdx(req.selectedFiles, [f \in requested |-> f \in ex])] :
            ex \in SUBSET requested,
            lines \in {NoChangesLines, SpecialLines}}

\* the items written after a successful response
SavedItems(req) ==
    [startCommit |-> <<req.startCommit>>, endCommit |-> <<req.endCommit>>,
     selectedFiles |-> <<req.selectedFiles>>,
     contextLines |-> <<NumToString(req.contextLines)>>]

\* the handler's try block after both awaits: displayDiffs, currentDiffData,
\* the export button shown, the four items saved
HandleSuccess(i, body, hljs) ==
    LET req == handlers[i]
        d == [kind |-> "data", startCommit |-> req.startCommit, endCommit |-> req.endCommit,
              contextLines |-> req.contextLines, keys |-> body.keys, diffs |-> body.diffs,
              excludedFiles |-> body.excludedFiles]
        children == displayDiffs(d, hljs)
    IN  /\ diffSummary' = [innerHTML |-> <<>>, children |-> children]
        /\ currentDiffData' = d
        /\ exportContainer' = [style |-> [display |-> "block"]]
        /\ localStorage' = SavedItems(req)
        /\ handlers' = [handlers EXCEPT ![i].pc = "done",
                                        ![i].result = [kind |-> "shown", d |-> d,
                                                       children |-> children]]

\* the handler's catch block: the message shown, the export button hidden,
\* currentDiffData = null
HandleFailure(i, message) ==
    /\ diffSummary' = [innerHTML |-> Html.errorOpen \o escapeHtml(message) \o Html.divClose,
                       children |-> <<>>]
    /\ exportContainer' = [style |-> [display |-> "none"]]
    /\ currentDiffData' = Null
    /\ handlers' = [handlers EXCEPT ![i].pc = "done",
                                    ![i].result = [kind |-> "failed", message |-> message]]
    /\ UNCHANGED localStorage

\* the page is loaded and nothing was submitted yet
InitSubmit ==
    /\ InitLookupIdle
    /\ InitShutdownIdle
    /\ InitTreeIdle
    /\ InitMainIdle
    /\ InitGenIdle
    /\ InitParseIdle
    /\ InitStripIdle
    /\ InitRenderIdle
    /\ InitSubmitIdle

\* the form's submit event: the handler runs up to its first await, or alerts
\* and returns when a field is empty
Submit ==
    /\ Len(handlers) < MaxSubmits
    /\ \E form \in FormValues :
          LET missing == form.startCommit = "" \/ form.endCommit = ""
                         \/ Len(form.selectedFiles) = 0
              n == NumberParseInt(form.contextLinesSelect)
          IN  handlers' = Append(handlers,
                  [startCommit |-> form.startCommit, endCommit |-> form.endCommit,
                   selectedFiles |-> form.selectedFiles,
                   contextLines |-> Num(n.value, 0),
                   pc |-> IF missing THEN "alerted" ELSE "fetch",
                   overlapping |-> ~missing /\ Pending(handlers) # {},
                   result |-> [kind |-> "none"]])
    /\ UNCHANGED <<lookupVars, shutdownVars, treeVars, mainVars, parseVars, stripVars,
                   renderVars, genVars, currentDiffData, exportContainer, localStorage>>

\* await fetch("/api/diff", ...) settles: a response that is ok, one that is
\* not, or a rejection, which lands in the catch block
FetchSettles ==
    /\ \E i \in 1..Len(handlers) :
          /\ handlers[i].pc = "fetch"
          /\ \/ /\ handlers' = [handlers EXCEPT ![i].pc = "json"]
                /\ UNCHANGED <<diffSummary, currentDiffData, exportContainer, localStorage>>
             \/ /\ handlers' = [handlers EXCEPT ![i].pc = "errorJson"]
                /\ UNCHANGED <<diffSummary, currentDiffData, exportContainer, localStorage>>
             \/ \E message \in ErrorMessages : HandleFailure(i, message)
    /\ UNCHANGED <<lookupVars, shutdownVars, treeVars, mainVars, parseVars, stripVars,
                   data, rendered, genVars>>

\* await response.json() of an ok response settles: the body is displayed, or
\* the rejection lands in the catch block
JsonSettles ==
    /\ \E i \in 1..Len(handlers) :
          /\ handlers[i].pc = "json"
          /\ \/ \E body \in ResponseBodies(handlers[i]), hljs \in HljsStates :
                   HandleSuccess(i, body, hljs)
             \/ \E message \in ErrorMessages : HandleFailure(i, message)
    /\ UNCHANGED <<lookupVars, shutdownVars, treeVars, mainVars, parseVars, stripVars,
                   data, rendered, genVars>>

\* await response.json().catch(() => ({})) of a response that is not ok settles:
\* throw new Error(errorJson.error || "Failed to fetch diff")
ErrorJsonSettles ==
    /\ \E i \in 1..Len(handlers) :
          /\ handlers[i].pc = "errorJson"
          /\ \E message \in ErrorMessages \cup {FailedToFetchDiff} : HandleFailure(i, message)
    /\ UNCHANGED <<lookupVars, shutdownVars, treeVars, mainVars, parseVars, stripVars,
                   data, rendered, genVars>>

NextSubmit ==
    \/ Submit
    \/ FetchSettles
    \/ JsonSettles
    \/ ErrorJsonSettles

SpecSubmit == InitSubmit /\ [][NextSubmit]_vars

-----------------------------------------------------------------------------
(* Claims checked under SpecSubmit                                          *)

\* C30: once every response of overlapping submissions was handled, the diff
\* shown, currentDiffData, the export button and the saved items belong to the
\* request submitted last; and whenever the export button is visible,
\* currentDiffData is not null and is the data of the diff shown.
C30_LatestRequestWins ==
    LET sent == {i \in 1..Len(handlers) : handlers[i].pc # "alerted"}
        last == CHOOSE i \in sent : \A j \in sent : j <= i
        latest == handlers[last]
    IN  /\ (/\ Pending(handlers) = {}
            /\ \E i \in sent : handlers[i].overlapping) =>
                IF latest.result.kind = "shown"
                THEN /\ diffSummary.children = latest.result.children
                     /\ currentDiffData = latest.result.d
                     /\ exportContainer.style.display = "block"
                     /\ localStorage = SavedItems(latest)
                ELSE /\ diffSummary.innerHTML
                          = Html.errorOpen \o escapeHtml(latest.result.message) \o Html.divClose
                     /\ currentDiffData = Null
                     /\ exportContainer.style.display = "none"
        /\ exportContainer.style.display = "block" =>
                /\ currentDiffData # Null
                /\ \E hljs \in HljsStates :
                       diffSummary.children = displayDiffs(currentDiffData, hljs)

====
